---- MODULE Spec2Model ----
(***************************************************************************)
(* A model of the redaxios request client (src/src/index.js): the config   *)
(* merger deepMerge, the request orchestrator redaxios() and the           *)
(* settlement of the promise chain it returns.                             *)
(*                                                                         *)
(* JavaScript values are records [t, s, e]: t is the kind of the value,    *)
(* s the characters of a string (a sequence of one-character strings; the  *)
(* name of a function or host object for those kinds) and e the own        *)
(* enumerable entries of an object or array, in insertion order, each      *)
(* entry a record [k, v] of a key (a character sequence) and a value.      *)
(***************************************************************************)
EXTENDS Integers, Sequences, FiniteSets, TLC

\* ------------------------------------------------------------- JS values
Undefined == [t |-> "undefined", s |-> <<>>, e |-> <<>>]
JsNull == [t |-> "null", s |-> <<>>, e |-> <<>>]
Str(chars) == [t |-> "string", s |-> chars, e |-> <<>>]
JsTrue == [t |-> "boolean", s |-> <<"1">>, e |-> <<>>]
JsFalse == [t |-> "boolean", s |-> <<"0">>, e |-> <<>>]
Fn(name) == [t |-> "function", s |-> <<name>>, e |-> <<>>]
Host(kind, name) == [t |-> kind, s |-> <<name>>, e |-> <<>>]
Obj(entries) == [t |-> "object", s |-> <<>>, e |-> entries]
Ent(key, value) == [k |-> key, v |-> value]
Arr(items) == [t |-> "array", s |-> <<>>,
               e |-> [i \in 1..Len(items) |-> Ent(<<ToString(i - 1)>>, items[i])]]

\* typeof v
TypeOf(v) ==
  CASE v.t \in {"object", "array", "null", "formdata", "blob", "signal", "stream"} -> "object"
    [] OTHER -> v.t

\* ToBoolean(v)
Truthy(v) ==
  CASE v.t \in {"undefined", "null"} -> FALSE
    [] v.t = "string" -> v.s # <<>>
    [] v.t = "boolean" -> v.s = <<"1">>
    [] OTHER -> TRUE

\* a || b
OrElse(a, b) == IF Truthy(a) THEN a ELSE b

\* the keys and values a for-in loop over v visits, in order
EntriesOf(v) ==
  CASE v.t \in {"object", "array"} -> v.e
    [] v.t = "string" -> [i \in 1..Len(v.s) |-> Ent(<<ToString(i - 1)>>, Str(<<v.s[i]>>))]
    [] OTHER -> <<>>

\* key in obj (own entries)
Has(entries, key) == \E i \in 1..Len(entries) : entries[i].k = key

\* obj[key]
GetE(entries, key) ==
  IF Has(entries, key)
  THEN entries[CHOOSE i \in 1..Len(entries) : entries[i].k = key].v
  ELSE Undefined
Get(obj, key) == GetE(EntriesOf(obj), key)

\* obj[key] = value: an existing key keeps its place, a new key goes last
PutE(entries, key, value) ==
  IF Has(entries, key)
  THEN [i \in 1..Len(entries) |->
          IF entries[i].k = key THEN Ent(key, value) ELSE entries[i]]
  ELSE Append(entries, Ent(key, value))

\* ---------------------------------------------------------------- strings
UpperLetters == <<"A","B","C","D","E","F","G","H","I","J","K","L","M",
                  "N","O","P","Q","R","S","T","U","V","W","X","Y","Z">>
LowerLetters == <<"a","b","c","d","e","f","g","h","i","j","k","l","m",
                  "n","o","p","q","r","s","t","u","v","w","x","y","z">>
LetterIndex(letters, c) == CHOOSE i \in 1..Len(letters) : letters[i] = c
IsOneOf(letters, c) == \E i \in 1..Len(letters) : letters[i] = c

\* String.prototype.toLowerCase and toUpperCase, character by character
ToLowerCase(chars) ==
  [i \in 1..Len(chars) |->
     IF IsOneOf(UpperLetters, chars[i])
     THEN LowerLetters[LetterIndex(UpperLetters, chars[i])] ELSE chars[i]]
ToUpperCase(chars) ==
  [i \in 1..Len(chars) |->
     IF IsOneOf(LowerLetters, chars[i])
     THEN UpperLetters[LetterIndex(LowerLetters, chars[i])] ELSE chars[i]]

\* url.indexOf(c) is not -1
Contains(chars, c) == \E i \in 1..Len(chars) : chars[i] = c

\* keys of the configuration the orchestrator reads
kUrl == <<"u","r","l">>
kMethod == <<"m","e","t","h","o","d">>
kHeaders == <<"h","e","a","d","e","r","s">>
kData == <<"d","a","t","a">>
kResponseType == <<"r","e","s","p","o","n","s","e","T","y","p","e">>
kParams == <<"p","a","r","a","m","s">>
kParamsSerializer == <<"p","a","r","a","m","s","S","e","r","i","a","l","i","z","e","r">>
kWithCredentials == <<"w","i","t","h","C","r","e","d","e","n","t","i","a","l","s">>
kAuth == <<"a","u","t","h">>
kXsrfCookieName == <<"x","s","r","f","C","o","o","k","i","e","N","a","m","e">>
kXsrfHeaderName == <<"x","s","r","f","H","e","a","d","e","r","N","a","m","e">>
kValidateStatus == <<"v","a","l","i","d","a","t","e","S","t","a","t","u","s">>
kTransformRequest == <<"t","r","a","n","s","f","o","r","m","R","e","q","u","e","s","t">>
kBaseURL == <<"b","a","s","e","U","R","L">>
kFetch == <<"f","e","t","c","h">>
kSignal == <<"s","i","g","n","a","l">>
kOnUploadProgress == <<"o","n","U","p","l","o","a","d","P","r","o","g","r","e","s","s">>
kOnDownloadProgress == <<"o","n","D","o","w","n","l","o","a","d","P","r","o","g","r","e","s","s">>

\* header names and values written by the orchestrator
hAuthorization == <<"a","u","t","h","o","r","i","z","a","t","i","o","n">>
hContentType == <<"c","o","n","t","e","n","t","-","t","y","p","e">>
ApplicationJson == <<"a","p","p","l","i","c","a","t","i","o","n","/","j","s","o","n">>

\* ----------------------------------------------------------- Config Merger
\* Array.prototype.concat: an array argument is spread, any other is one item
Concat(arr, x) ==
  LET items == IF x.t = "array" THEN [i \in 1..Len(x.e) |-> x.e[i].v] ELSE <<x>>
      olds == [i \in 1..Len(arr.e) |-> arr.e[i].v]
  IN Arr(olds \o items)

RECURSIVE deepMerge(_, _, _)
RECURSIVE CopyKeys(_, _, _, _)
RECURSIVE MergeKeys(_, _, _, _)
RECURSIVE MergeKeys_Replaces(_, _, _, _)

\* the override's value replaces the base's, nested objects included
MergeKeys_Replaces(out, ents, n, lowerCase) ==
  IF n > Len(ents) THEN out
  ELSE LET key == IF lowerCase THEN ToLowerCase(ents[n].k) ELSE ents[n].k
       IN MergeKeys_Replaces(PutE(out, key, ents[n].v), ents, n + 1, lowerCase)

\* for (i in opts) out[key] = opts[i]
CopyKeys(out, ents, n, lowerCase) ==
  IF n > Len(ents) THEN out
  ELSE LET key == IF lowerCase THEN ToLowerCase(ents[n].k) ELSE ents[n].k
       IN CopyKeys(PutE(out, key, ents[n].v), ents, n + 1, lowerCase)

\* for (i in overrides) out[key] = key in out && typeof value == 'object' ? deepMerge(...) : value
MergeKeys(out, ents, n, lowerCase) ==
  IF n > Len(ents) THEN out
  ELSE LET key == IF lowerCase THEN ToLowerCase(ents[n].k) ELSE ents[n].k
           value == ents[n].v
           merged == IF Has(out, key) /\ TypeOf(value) = "object"
                     THEN deepMerge(GetE(out, key), value, key = kHeaders)
                     ELSE value
       IN MergeKeys(PutE(out, key, merged), ents, n + 1, lowerCase)

deepMerge(opts, overrides, lowerCase) ==
  IF opts.t = "array" THEN Concat(opts, overrides)
  ELSE Obj(MergeKeys(CopyKeys(<<>>, EntriesOf(opts), 1, lowerCase),
                     EntriesOf(overrides), 1, lowerCase))

\* redaxios.mergeConfig
mergeConfig(config1, config2) ==
  deepMerge(OrElse(config1, Obj(<<>>)), OrElse(config2, Obj(<<>>)), FALSE)


\* ------------------------------------------------- platform string functions
RECURSIVE Flatten(_)
Flatten(seqs) == IF seqs = <<>> THEN <<>> ELSE Head(seqs) \o Flatten(Tail(seqs))

RECURSIVE Join(_, _)
Join(seqs, sep) ==
  IF seqs = <<>> THEN <<>>
  ELSE IF Len(seqs) = 1 THEN Head(seqs)
  ELSE Head(seqs) \o sep \o Join(Tail(seqs), sep)

Quote(chars) == <<"\"">> \o chars \o <<"\"">>

\* JSON.stringify on strings, null, booleans, arrays and plain objects whose
\* characters need no escaping; undefined and function members are skipped
RECURSIVE Stringify(_)
Stringify(v) ==
  CASE v.t = "string" -> Quote(v.s)
    [] v.t = "null" -> <<"n","u","l","l">>
    [] v.t = "boolean" -> IF v.s = <<"1">> THEN <<"t","r","u","e">> ELSE <<"f","a","l","s","e">>
    [] v.t = "array" ->
         <<"[">> \o Join([i \in 1..Len(v.e) |->
                            IF v.e[i].v.t \in {"undefined", "function"}
                            THEN <<"n","u","l","l">> ELSE Stringify(v.e[i].v)], <<",">>) \o <<"]">>
    [] OTHER ->
         LET kept == SelectSeq(v.e, LAMBDA en : en.v.t \notin {"undefined", "function"})
         IN <<"{">> \o Join([i \in 1..Len(kept) |->
                               Quote(kept[i].k) \o <<":">> \o Stringify(kept[i].v)], <<",">>) \o <<"}">>

\* the JSON values a response body of the model can denote
JsonWorld == Obj(<<Ent(<<"h">>, Str(<<"w">>))>>)
JsonError == Obj(<<Ent(<<"e","r","r">>, Str(<<"n","o">>))>>)
JsonValues == {JsonWorld, JsonError, Str(<<"4">>), JsNull}

\* JSON.parse: the value whose serialization the text is, a SyntaxError otherwise
ParsesAsJson(chars) == \E v \in JsonValues : Stringify(v) = chars
JsonParse(chars) == CHOOSE v \in JsonValues : Stringify(v) = chars

\* new URLSearchParams(params) + '' for a plain object of string values
SearchParams(params) ==
  Join([i \in 1..Len(EntriesOf(params)) |->
          EntriesOf(params)[i].k \o <<"=">> \o EntriesOf(params)[i].v.s], <<"&">>)

\* decodeURIComponent: %41 is "A"; a "%" that starts no escape is a URIError
HexDigits == {"0","1","2","3","4","5","6","7","8","9","A","B","C","D","E","F"}
RECURSIVE DecodeOk(_)
DecodeOk(chars) ==
  IF chars = <<>> THEN TRUE
  ELSE IF Head(chars) = "%"
       THEN Len(chars) >= 3 /\ chars[2] \in HexDigits /\ chars[3] \in HexDigits
            /\ DecodeOk(SubSeq(chars, 4, Len(chars)))
       ELSE DecodeOk(Tail(chars))
HexChar(a, b) == IF a = "4" /\ b = "1" THEN "A" ELSE IF a = "2" /\ b = "F" THEN "/" ELSE "?"
RECURSIVE DecodeURIComponent(_)
DecodeURIComponent(chars) ==
  IF chars = <<>> THEN <<>>
  ELSE IF Head(chars) = "%"
       THEN <<HexChar(chars[2], chars[3])>> \o DecodeURIComponent(SubSeq(chars, 4, Len(chars)))
       ELSE <<Head(chars)>> \o DecodeURIComponent(Tail(chars))

\* String(v) as string concatenation applies it
ToChars(v) ==
  CASE v.t = "string" -> v.s
    [] v.t = "undefined" -> <<"u","n","d","e","f","i","n","e","d">>
    [] v.t = "null" -> <<"n","u","l","l">>
    [] OTHER -> v.s

\* ---------------------------------------------------------- URL resolution
\* whether /^(?!.*\/\/)\/?/ matches: no "//" anywhere in the url
HasDoubleSlash(chars) == \E i \in 1..(Len(chars) - 1) : chars[i] = "/" /\ chars[i + 1] = "/"

\* url.replace(/^(?!.*\/\/)\/?/, baseURL + '/')
ReplaceBase(chars, base) ==
  IF HasDoubleSlash(chars) THEN chars
  ELSE base \o <<"/">> \o (IF chars # <<>> /\ Head(chars) = "/" THEN Tail(chars) ELSE chars)

\* ------------------------------------------------ Request Orchestrator: Building
kAppend == <<"a","p","p","e","n","d">>
kText == <<"t","e","x","t">>
mGET == <<"G","E","T">>
mHEAD == <<"H","E","A","D">>

\* typeof data.append === 'function', typeof data.text === 'function'
HasAppend(v) == v.t = "formdata" \/ Get(v, kAppend).t = "function"
HasText(v) == v.t = "blob" \/ Get(v, kText).t = "function"

\* let url = typeof urlOrConfig != 'string' ? (config = urlOrConfig).url : urlOrConfig
ArgConfig(urlOrConfig, config) == IF TypeOf(urlOrConfig) # "string" THEN urlOrConfig ELSE config
ArgUrl(urlOrConfig) == IF TypeOf(urlOrConfig) # "string" THEN Get(urlOrConfig, kUrl) ELSE urlOrConfig
ArgUrlThrows(urlOrConfig) == urlOrConfig.t \in {"undefined", "null"}

\* const options = deepMerge(defaults, config)
EffectiveOptions(dflts, config) == deepMerge(dflts, config, FALSE)

\* the request transforms of the model: what f(data, headers) returns;
\* tfSetHeader also sets the header x-t on the headers object it is given
TransformThrows(f) == f.t # "function" \/ f.s = <<"tfThrow">>
hXT == <<"x","-","t">>
ApplyTransform(f, data, headers) ==
  CASE f.s = <<"tfEncode">> -> Str(<<"e","n","c">>)
    [] f.s = <<"tfForm">> -> Host("formdata", "encoded")
    [] f.s = <<"tfObject">> -> Obj(<<Ent(<<"t">>, Str(<<"f">>))>>)
    [] OTHER -> Undefined

\* (options.transformRequest || []).map((f) => { data = f(data, options.headers) || data; })
TransformList(options) == OrElse(Get(options, kTransformRequest), Arr(<<>>))
TransformsThrow(options) ==
  \/ TransformList(options).t # "array"
  \/ \E i \in 1..Len(TransformList(options).e) :
        \/ TransformThrows(TransformList(options).e[i].v)
        \/ /\ TransformList(options).e[i].v.s = <<"tfSetHeader">>
           /\ Get(options, kHeaders).t # "object"
\* options after the transforms ran: options.headers as a transform left it
SetHeaderRuns(options) ==
  /\ TransformList(options).t = "array" /\ Get(options, kHeaders).t = "object"
  /\ \E i \in 1..Len(TransformList(options).e) :
        /\ TransformList(options).e[i].v.s = <<"tfSetHeader">>
        /\ \A j \in 1..(i - 1) : ~TransformThrows(TransformList(options).e[j].v)
AfterTransforms(options) ==
  IF SetHeaderRuns(options)
  THEN [options EXCEPT !.e = PutE(options.e, kHeaders,
          [Get(options, kHeaders) EXCEPT !.e = PutE(@, hXT, Str(<<"1">>))])]
  ELSE options
RECURSIVE RunTransforms(_, _, _, _)
RunTransforms(fs, n, data, headers) ==
  IF n > Len(fs) THEN data
  ELSE RunTransforms(fs, n + 1, OrElse(ApplyTransform(fs[n].v, data, headers), data), headers)

\* data = data || options.data, then the transforms
ResolveData(options, data) ==
  RunTransforms(TransformList(options).e, 1, OrElse(data, Get(options, kData)),
                Get(options, kHeaders))

\* data && typeof data === 'object' && typeof data.append !== 'function' && typeof data.text !== 'function'
IsJsonBody(data) ==
  Truthy(data) /\ TypeOf(data) = "object" /\ ~HasAppend(data) /\ ~HasText(data)

\* data = JSON.stringify(data)
EncodeBody(data) == IF IsJsonBody(data) THEN Str(Stringify(data)) ELSE data

\* the JSON content-type is left out when the configuration names one already
CustomHeaders_KeepConfigured(options, data, cookie) ==
  LET a == IF Truthy(Get(options, kAuth))
           THEN <<Ent(hAuthorization, Get(options, kAuth))>> ELSE <<>>
      named == \E i \in 1..Len(EntriesOf(Get(options, kHeaders))) :
                  ToLowerCase(EntriesOf(Get(options, kHeaders))[i].k) = hContentType
      j == IF IsJsonBody(data) /\ ~named THEN PutE(a, hContentType, Str(ApplicationJson)) ELSE a
      x == IF cookie.t = "string" /\ DecodeOk(cookie.s)
           THEN PutE(j, ToChars(Get(options, kXsrfHeaderName)), Str(DecodeURIComponent(cookie.s)))
           ELSE j
  IN Obj(x)

\* customHeaders after lines 220-235; cookie is the text the XSRF cookie pattern
\* captured in document.cookie, or undefined when there is no document or no match
CustomHeaders(options, data, cookie) ==
  LET a == IF Truthy(Get(options, kAuth))
           THEN <<Ent(hAuthorization, Get(options, kAuth))>> ELSE <<>>
      j == IF IsJsonBody(data) THEN PutE(a, hContentType, Str(ApplicationJson)) ELSE a
      x == IF cookie.t = "string" /\ DecodeOk(cookie.s)
           THEN PutE(j, ToChars(Get(options, kXsrfHeaderName)), Str(DecodeURIComponent(cookie.s)))
           ELSE j
  IN Obj(x)

\* the header merge without case folding
DispatchHeaders_NoFold(options, custom) == deepMerge(Get(options, kHeaders), custom, FALSE)

\* headers: deepMerge(options.headers, customHeaders, true)
DispatchHeaders(options, custom) == deepMerge(Get(options, kHeaders), custom, TRUE)

\* if (options.baseURL) url = url.replace(...)
BaseThrows(options, url) == Truthy(Get(options, kBaseURL)) /\ url.t # "string"
WithBase(options, url) ==
  IF Truthy(Get(options, kBaseURL))
  THEN Str(ReplaceBase(url.s, ToChars(Get(options, kBaseURL))))
  ELSE url

\* the params serializers of the model
SerializerThrows(f) == f.t # "function" \/ f.s = <<"psThrow">>
ApplySerializer(f, params) == <<"e","=","l","a","w">>

\* if (options.params) url += (~url.indexOf('?') ? '&' : '?') + serialized
ParamsThrow(options, url) ==
  Truthy(Get(options, kParams))
  /\ (url.t # "string"
      \/ (Truthy(Get(options, kParamsSerializer)) /\ SerializerThrows(Get(options, kParamsSerializer))))
WithParams(options, url) ==
  IF Truthy(Get(options, kParams))
  THEN Str(url.s \o (IF Contains(url.s, "?") THEN <<"&">> ELSE <<"?">>)
           \o (IF Truthy(Get(options, kParamsSerializer))
               THEN ApplySerializer(Get(options, kParamsSerializer), Get(options, kParams))
               ELSE SearchParams(Get(options, kParams))))
  ELSE url

\* const method = (_method || options.method || 'get').toUpperCase()
EffectiveMethod(method, options) ==
  ToUpperCase(OrElse(method, OrElse(Get(options, kMethod), Str(<<"g","e","t">>))).s)

\* const hasBody = data && method !== 'GET' && method !== 'HEAD'
HasBody(data, method) == Truthy(data) /\ method # mGET /\ method # mHEAD

\* const baseFetchOptions = { method, body: data, headers, credentials, signal }
BaseFetchOptions(options, method, data, custom) ==
  [method |-> method,
   body |-> data,
   headers |-> DispatchHeaders(options, custom),
   credentials |-> IF Truthy(Get(options, kWithCredentials))
                   THEN Str(<<"i","n","c","l","u","d","e">>) ELSE Undefined,
   signal |-> Get(options, kSignal)]

\* whether the upload-progress branch is entered (line 261)
WantsUpload(options, data, method, hasStreams) ==
  HasBody(data, method) /\ Truthy(Get(options, kOnUploadProgress)) /\ hasStreams

\* what was handed to the transport: (url, baseFetchOptions) in the form "options",
\* a Request descriptor built from the same two in the form "request"
NoSent ==
  [form |-> "none", transport |-> Undefined, url |-> Undefined, method |-> <<>>,
   body |-> Undefined, headers |-> Undefined, credentials |-> Undefined, signal |-> Undefined]
Sent(form, transport, url, o) ==
  [form |-> form, transport |-> transport, url |-> url, method |-> o.method, body |-> o.body,
   headers |-> o.headers, credentials |-> o.credentials, signal |-> o.signal]

\* const fetchFunc = options.fetch || fetch
FetchFunc(options) == OrElse(Get(options, kFetch), Fn("fetch"))

\* the descriptor is handed over although its construction failed
DispatchForm_IgnoresFailure(options, data, method, hasStreams, upload) ==
  IF WantsUpload(options, data, method, hasStreams) THEN "request" ELSE "options"

\* lines 259-271: upload is what the try block does ("ok", "ctorThrows", "wrapThrows")
DispatchForm(options, data, method, hasStreams, upload) ==
  IF WantsUpload(options, data, method, hasStreams) /\ upload = "ok"
  THEN "request" ELSE "options"

\* the synchronous part of redaxios(urlOrConfig, config, _method, data), lines 204-271.
\* thrown: an exception left the function; calls: how often fetchFunc was invoked
Build(dflts, hasStreams, urlOrConfig, config, method, data, cookie, upload, fetchThrows) ==
  LET cfg == ArgConfig(urlOrConfig, config)
      options == AfterTransforms(EffectiveOptions(dflts, cfg))
      data1 == ResolveData(options, data)
      custom == CustomHeaders(options, data1, cookie)
      body == EncodeBody(data1)
      url1 == WithBase(options, ArgUrl(urlOrConfig))
      url2 == WithParams(options, url1)
      m == EffectiveMethod(method, options)
      failed == [thrown |-> TRUE, calls |-> 0, config |-> cfg, options |-> Obj(<<>>), sent |-> NoSent]
  IN IF ArgUrlThrows(urlOrConfig) THEN failed
     ELSE IF TransformsThrow(options) \/ BaseThrows(options, ArgUrl(urlOrConfig))
             \/ ParamsThrow(options, url1)
     THEN [failed EXCEPT !.options = options]
     ELSE [thrown |-> fetchThrows, calls |-> 1, config |-> cfg, options |-> options,
           sent |-> Sent(DispatchForm(options, body, m, hasStreams, upload),
                         FetchFunc(options), url2,
                         BaseFetchOptions(options, m, body, custom))]

\* ------------------------------------------- transport responses and errors
\* a raw transport response: hdrs is "headers" when it has a Headers object,
\* stream the state of its body stream ("none" when it has no body), text the
\* body's text, decode what its decode methods do
NoRes == [status |-> 0, ok |-> FALSE, hdrs |-> "none", stream |-> "none",
          text |-> <<>>, decode |-> "none"]

\* a Response being assembled (line 206, lines 278-307)
NewResponse(config) ==
  [config |-> config, copied |-> FALSE, status |-> 0, ok |-> FALSE,
   headers |-> "none", body |-> "none", data |-> Undefined]

\* an error value: kind is "error" for an object, "null" or "undefined" otherwise;
\* origin tells the objects apart; response holds at most one Response
MkError(origin, name, message, code) ==
  [kind |-> "error", origin |-> origin, name |-> name, message |-> message,
   code |-> code, response |-> <<>>, config |-> Undefined, isAxiosError |-> FALSE]
NoError == [MkError("none", "", "", "") EXCEPT !.kind = "none"]

\* redaxios.isCancel: (error && ...) || (error && ...) || (error && ...)
isCancel(error) ==
  CASE error.kind = "null" -> JsNull
    [] error.kind = "undefined" -> Undefined
    [] OTHER ->
         IF error.name = "AbortError" \/ error.code = "ERR_CANCELED" \/ error.message = "canceled"
         THEN JsTrue ELSE JsFalse

\* redaxios.isAxiosError: payload && typeof payload === 'object' && payload.isAxiosError === true
isAxiosError(payload) ==
  CASE payload.kind = "null" -> JsNull
    [] payload.kind = "undefined" -> Undefined
    [] OTHER -> IF payload.isAxiosError = TRUE THEN JsTrue ELSE JsFalse

\* the error carries the call's own config instead of the effective one
HttpError_CallConfig(res, response, options) ==
  [MkError("http", "Error", "Request failed with status code " \o ToString(res.status), "")
     EXCEPT !.response = <<response>>, !.config = response.config, !.isAxiosError = TRUE]

\* lines 314-317
HttpError(res, response, options) ==
  [MkError("http", "Error", "Request failed with status code " \o ToString(res.status), "")
     EXCEPT !.response = <<response>>, !.config = options, !.isAxiosError = TRUE]

\* lines 325-327
CancelError == MkError("cancel", "AbortError", "canceled", "")

\* the handler recognizes an abort by its name alone
Catch_NameOnly(error) ==
  IF error.kind = "error" /\ error.name = "AbortError"
  THEN CancelError
  ELSE IF error.kind # "error"
       THEN MkError("catch", "TypeError", "Cannot read properties of " \o error.kind, "")
       ELSE error

\* the rejection handler, lines 322-340: the value the call rejects with
Catch(error) ==
  IF error.kind = "error" /\ (error.name = "AbortError" \/ error.code = "ERR_CANCELED")
  THEN CancelError
  ELSE IF error.kind # "error"
       THEN MkError("catch", "TypeError", "Cannot read properties of " \o error.kind, "")
       ELSE error

\* ---------------------------------------------------------- response handling
\* wrapResponseWithProgress: a response with a body is rebuilt as a platform
\* Response around the instrumented stream
DownloadWrapThrows(res) == res.stream # "none" /\ res.hdrs = "none"
wrapResponseWithProgress(res) ==
  IF res.stream = "none" THEN res
  ELSE [status |-> res.status, ok |-> (res.status >= 200 /\ res.status <= 299),
        hdrs |-> "headers", stream |-> res.stream, text |-> res.text,
        decode |-> IF res.stream = "good" THEN "ok" ELSE "rejects"]

\* line 274
WantsDownload(options, hasStreams) == Truthy(Get(options, kOnDownloadProgress)) /\ hasStreams

\* lines 278-292
CopyFields(response, res) ==
  [response EXCEPT !.copied = TRUE, !.status = res.status, !.ok = res.ok,
                   !.body = res.stream,
                   !.headers = IF res.hdrs = "headers" THEN "proxy" ELSE "none"]

rtStream == <<"s","t","r","e","a","m">>
rtText == <<"t","e","x","t">>
rtJson == <<"j","s","o","n">>
rtBlob == <<"b","l","o","b">>
DecodeMethods == {rtText, rtJson, rtBlob,
                  <<"a","r","r","a","y","B","u","f","f","e","r">>,
                  <<"f","o","r","m","D","a","t","a">>}

\* options.responseType || 'text'
DecodeName(options) == ToChars(OrElse(Get(options, kResponseType), Str(rtText)))

\* res[options.responseType || 'text']() throws before it returns a future
DecodeThrows(options, res) ==
  DecodeName(options) \notin DecodeMethods \/ res.decode \in {"throws", "missing"}

\* whether the decode future resolves, and with what
DecodeResolves(options, res) ==
  res.decode = "ok" /\ (DecodeName(options) = rtJson => ParsesAsJson(res.text))
Decoded(options, res) ==
  CASE DecodeName(options) = rtText -> Str(res.text)
    [] DecodeName(options) = rtJson -> JsonParse(res.text)
    [] OTHER -> Host("blob", "decoded")

\* lines 300-307
ParseData(options, data) ==
  IF Get(options, kResponseType) # Str(rtText) /\ TypeOf(data) = "string" /\ ParsesAsJson(data.s)
  THEN JsonParse(data.s) ELSE data

\* the status validators of the model
ApplyValidator(f, status) ==
  CASE f.s = <<"vsAll">> -> TRUE
    [] f.s = <<"vsNone">> -> FALSE
    [] OTHER -> status < 400

\* the classification reads the ok flag and never the validator
Classify_OkFlagOnly(options, res) == res.ok

\* line 310
Classify(options, res) ==
  IF Truthy(Get(options, kValidateStatus))
  THEN ApplyValidator(Get(options, kValidateStatus), res.status)
  ELSE res.ok

\* ------------------------------------------------------------------- inputs
hXA == <<"X","-","A">>
hxa == <<"x","-","a">>
hContentTypeMixed == <<"C","o","n","t","e","n","t","-","T","y","p","e">>
hXsrf == <<"X","-","T">>
TextPlain == <<"h","i">>
RawBody == Str(<<"r","a","w">>)
FormBody == Host("formdata", "form")

\* the defaults a client is created with (create(defaults))
DefaultsSet ==
  { Obj(<<>>),
    Obj(<<Ent(kHeaders, Obj(<<Ent(hXA, Str(<<"d">>)), Ent(hContentTypeMixed, Str(<<"p">>))>>)),
          Ent(kBaseURL, Str(<<"h",":","/","/","f">>))>>),
    Obj(<<Ent(kData, JsonError), Ent(kMethod, Str(<<"p","u","t">>)),
          Ent(kValidateStatus, Fn("vsLt400")), Ent(kTransformRequest, Arr(<<Fn("tfVoid")>>))>>) }

\* target URLs: relative, rooted, absolute, relative with "//", with a query
UrlPlain == Str(<<"/","b">>)
Urls ==
  { Str(<<"b">>), UrlPlain, Str(<<"h",":","/","/","g">>), Str(<<"a","/","/","b">>),
    Str(<<"/","b","?","q">>), Undefined }

HeaderOpts ==
  { <<>>,
    <<Ent(kHeaders, Obj(<<Ent(hxa, Str(<<"2">>))>>))>>,
    <<Ent(kHeaders, Obj(<<Ent(hxa, Str(<<"2">>)), Ent(hXA, Str(<<"4">>))>>))>>,
    <<Ent(kHeaders, Obj(<<Ent(ToUpperCase(hContentType), Str(<<"m">>))>>))>> }
DataOpts == { <<>>, <<Ent(kData, JsonWorld)>>, <<Ent(kData, RawBody)>> }
AuthOpts == { <<>>, <<Ent(kAuth, Str(<<"t","o","k">>))>> }
BaseOpts ==
  { <<>>, <<Ent(kBaseURL, Str(<<"h",":","/","/","f">>))>>,
    <<Ent(kBaseURL, Str(<<"h",":","/","/","f","/">>))>>, <<Ent(kBaseURL, Str(<<"/","f">>))>> }
ParamOpts ==
  { <<>>, <<Ent(kParams, Obj(<<Ent(<<"a">>, Str(<<"1">>)), Ent(<<"b">>, Str(<<"2">>))>>))>> }
SerializerOpts ==
  { <<Ent(kParamsSerializer, Fn("psLaw"))>>, <<Ent(kParamsSerializer, Fn("psThrow"))>> }
TypeOpts ==
  { <<>>, <<Ent(kResponseType, Str(rtText))>>, <<Ent(kResponseType, Str(rtJson))>>,
    <<Ent(kResponseType, Str(rtStream))>>, <<Ent(kResponseType, Str(rtBlob))>> }
ValidatorOpts ==
  { <<>>, <<Ent(kValidateStatus, Fn("vsAll"))>>, <<Ent(kValidateStatus, Fn("vsNone"))>> }
DownloadOpts == { <<>>, <<Ent(kOnDownloadProgress, Fn("onDown"))>> }
MethodOpts == { <<Ent(kMethod, Str(<<"p","o","s","t">>))>>, <<Ent(kMethod, Str(<<"h","e","a","d">>))>> }
TransformOpts ==
  { <<>>, <<Ent(kTransformRequest, Arr(<<Fn("tfEncode")>>))>>,
    <<Ent(kTransformRequest, Arr(<<Fn("tfObject"), Fn("tfVoid")>>))>>,
    <<Ent(kTransformRequest, Arr(<<Fn("tfThrow")>>))>> }
UploadOpts == { <<>>, <<Ent(kOnUploadProgress, Fn("onUp"))>> }
MiscConfig ==
  Obj(<<Ent(kWithCredentials, JsTrue), Ent(kSignal, Host("signal", "abort")),
        Ent(kXsrfCookieName, Str(<<"c","k">>)), Ent(kXsrfHeaderName, Str(hXsrf)),
        Ent(kFetch, Fn("customFetch"))>>)

\* call configurations, each family varying the fields of one concern
HeaderConfigs == { Obj(h \o d \o a) : h \in HeaderOpts, d \in DataOpts, a \in AuthOpts }
UrlConfigs ==
  { Obj(b \o q) : b \in BaseOpts, q \in ParamOpts }
  \cup { Obj(q \o z) : q \in ParamOpts, z \in SerializerOpts }
ResponseConfigs == { Obj(r \o v \o w) : r \in TypeOpts, v \in ValidatorOpts, w \in DownloadOpts }
BodyConfigs ==
  { Obj(m \o d \o f \o u) : m \in MethodOpts, d \in {<<>>, <<Ent(kData, JsonWorld)>>},
                            f \in TransformOpts, u \in UploadOpts }
  \cup { MiscConfig }
Configs == HeaderConfigs \cup UrlConfigs \cup ResponseConfigs \cup BodyConfigs \cup {Undefined}

\* the arguments <<urlOrConfig, config, _method, data>> the public surface passes
\* to redaxios: request(config), request(url, config) and the verb shortcuts
vGet == Str(<<"g","e","t">>)
vHead == Str(<<"h","e","a","d">>)
vDelete == Str(<<"d","e","l","e","t","e">>)
vPost == Str(<<"p","o","s","t">>)
vPatch == Str(<<"p","a","t","c","h">>)
PositionalData == { Undefined, JsonWorld, FormBody }
BlobBody == Host("blob", "file")
WithUrl(config, url) ==
  IF url.t = "undefined" THEN config ELSE Obj(<<Ent(kUrl, url)>> \o EntriesOf(config))

\* axios(config) / axios.request(config)
RequestConfig(config, url) == <<WithUrl(config, url), Undefined, Undefined, Undefined>>
\* axios(url, config)
RequestUrl(url, config) == <<url, config, Undefined, Undefined>>
\* redaxios.get, .delete, .head, .options: lines 102-111
Bodyless(verb, url, config) == <<url, config, verb, Undefined>>
\* redaxios.post, .put, .patch: lines 114-120
WithBodyArg(verb, url, data, config) == <<url, config, verb, data>>

\* the calls of the model: each family of configurations with the call forms and
\* targets its concern depends on
Calls ==
  { RequestUrl(UrlPlain, c) : c \in HeaderConfigs \cup {Undefined} }
  \cup { Bodyless(vGet, UrlPlain, c) : c \in HeaderConfigs }
  \cup { WithBodyArg(vPost, UrlPlain, d, c) : d \in PositionalData \cup {BlobBody},
                                              c \in HeaderConfigs \cup {Undefined} }
  \cup { RequestConfig(c, u) : c \in UrlConfigs, u \in Urls }
  \cup { Bodyless(vGet, u, c) : c \in UrlConfigs, u \in Urls \ {Undefined} }
  \cup { Bodyless(vGet, UrlPlain, c) : c \in ResponseConfigs }
  \cup { RequestConfig(c, UrlPlain) : c \in BodyConfigs }
  \cup { Bodyless(v, UrlPlain, c) : v \in {vGet, vHead, vDelete}, c \in BodyConfigs }
  \cup { WithBodyArg(v, UrlPlain, d, c) : v \in {vPost, vPatch}, d \in PositionalData, c \in BodyConfigs }
  \cup { <<Undefined, Undefined, Undefined, Undefined>> }

\* what document.cookie yields for the XSRF pattern: nothing, a value, a bad escape
Cookies(options) ==
  IF Get(options, kXsrfCookieName).t = "string"
  THEN { Undefined, Str(<<"t","%","4","1">>), Str(<<"t","%">>) } ELSE { Undefined }

\* what the transport resolves with
AllResponses ==
  { [status |-> st, ok |-> ok, hdrs |-> "none", stream |-> "none", text |-> tx, decode |-> "ok"] :
      st \in {200, 404}, ok \in BOOLEAN, tx \in {TextPlain, Stringify(JsonWorld)} }
  \cup { [status |-> st, ok |-> (st = 200), hdrs |-> "none", stream |-> "none",
          text |-> TextPlain, decode |-> d] :
      st \in {200, 404}, d \in {"rejects", "throws", "missing"} }
  \cup { [status |-> st, ok |-> ok, hdrs |-> "headers", stream |-> "good",
          text |-> Stringify(JsonError), decode |-> "ok"] : st \in {200, 404}, ok \in BOOLEAN }
  \cup { [status |-> 200, ok |-> TRUE, hdrs |-> h, stream |-> sm, text |-> TextPlain, decode |-> "ok"] :
      h \in {"none", "headers"}, sm \in {"good", "errors"} }

\* the responses tried for a call: all of them when the call's configuration is
\* about the response, a resolving, a failing and an undecodable one otherwise
BasicResponses ==
  { [status |-> 200, ok |-> TRUE, hdrs |-> "none", stream |-> "none",
     text |-> Stringify(JsonWorld), decode |-> "ok"],
    [status |-> 404, ok |-> FALSE, hdrs |-> "headers", stream |-> "good",
     text |-> TextPlain, decode |-> "ok"],
    [status |-> 200, ok |-> TRUE, hdrs |-> "none", stream |-> "none",
     text |-> TextPlain, decode |-> "rejects"] }
Responses(a) == IF a[2] \in ResponseConfigs THEN AllResponses ELSE BasicResponses

\* what the transport rejects with
AxiosLikeCancel ==
  [MkError("transport", "CanceledError", "canceled by user", "ERR_CANCELED")
     EXCEPT !.response = <<NewResponse(Undefined)>>]
Rejections ==
  { MkError("transport", "AbortError", "The user aborted a request.", ""),
    AxiosLikeCancel,
    MkError("transport", "TypeError", "Network request failed", ""),
    MkError("transport", "Error", "boom", ""),
    [MkError("transport", "", "", "") EXCEPT !.kind = "null"],
    [MkError("transport", "", "", "") EXCEPT !.kind = "undefined"] }

\* ------------------------------------------------------------------- state
VARIABLES
  defaults,      \* the client's defaults object
  streams,       \* whether the platform has Request and ReadableStream
  pc,            \* "idle", "dispatched", "decoding", "done"
  args,          \* the arguments of the call in progress
  options,       \* the effective configuration of the call
  sent,          \* what the transport was invoked with
  fetchCalls,    \* how often the transport was invoked in this call
  raw,           \* what the transport resolved with
  rejection,     \* what the transport rejected with
  res,           \* the response being decoded and classified
  response,      \* the Response being assembled
  outcome,       \* the call's settlement: state and error
  env,           \* what the platform did during the call: cookie, Request, fetch
  fn,            \* a call of a static helper: its name, arguments and result
  tr,            \* one instrumented stream: its transform's locals, output and events
  mem,           \* the objects of a client program, by reference
  flight,        \* the calls in flight on one client, each with its own locals
  meter          \* one speedometer: the locals of its closure, its clock and pushes

\* the variables of one call of redaxios
call == <<defaults, streams, pc, args, options, sent, fetchCalls, raw, rejection,
          res, response, outcome, env>>
vars == <<defaults, streams, pc, args, options, sent, fetchCalls, raw, rejection,
          res, response, outcome, env, fn, tr, mem, flight, meter>>

Pending == [state |-> "pending", error |-> NoError]
Resolved == [state |-> "resolved", error |-> NoError]
Rejected(error) == [state |-> "rejected", error |-> error]
Thrown == [state |-> "thrown", error |-> NoError]
NoArgs == <<Undefined, Undefined, Undefined, Undefined>>
NoEnv == [cookie |-> Undefined, upload |-> "ok", fetchThrows |-> FALSE]
\* nothing called, wrapped, allocated or in flight
NoFn == [op |-> "none", arg |-> <<>>, out |-> Undefined]
NoTr ==
  [impl |-> "none", total |-> 0, upload |-> FALSE, source |-> <<>>, input |-> <<>>,
   stream |-> FALSE, onProgress |-> FALSE,
   out |-> <<>>, events |-> <<>>, previousChunk |-> <<>>, transferredBytes |-> 0,
   returned |-> "none", phase |-> "none"]
NoMem ==
  [at |-> "none", heap |-> <<>>, clients |-> <<>>, created |-> <<>>, base |-> 0,
   caller |-> 0, config |-> Undefined, options |-> Undefined, threw |-> FALSE]
NoFlight == [calls |-> <<>>, logs |-> <<>>, defaults |-> Undefined]
NoRate == [defined |-> FALSE, rate |-> 0]
NoMeter ==
  [at |-> "none", samplesCount |-> 0, min |-> 0, bytes |-> <<>>, timestamps |-> <<>>,
   head |-> 0, tail |-> 0, firstSampleTS |-> 0, clock |-> 0, out |-> NoRate, log |-> <<>>]

Init ==
  /\ defaults \in DefaultsSet
  /\ streams \in BOOLEAN
  /\ pc = "idle"
  /\ args = NoArgs
  /\ options = Obj(<<>>)
  /\ sent = NoSent
  /\ fetchCalls = 0
  /\ raw = NoRes
  /\ rejection = NoError
  /\ res = NoRes
  /\ response = NewResponse(Undefined)
  /\ outcome = Pending /\ env = NoEnv
  /\ fn = NoFn /\ tr = NoTr /\ mem = NoMem /\ flight = NoFlight /\ meter = NoMeter

\* redaxios(urlOrConfig, config, _method, data) up to the transport's invocation
Request(a, cookie, upload, fetchThrows) ==
  LET b == Build(defaults, streams, a[1], a[2], a[3], a[4], cookie, upload, fetchThrows)
  IN /\ pc = "idle"
     /\ cookie \in Cookies(b.options)
     /\ upload # "ok" => WantsUpload(b.options, b.sent.body, b.sent.method, streams)
     /\ args' = a
     /\ options' = b.options
     /\ sent' = b.sent
     /\ fetchCalls' = b.calls
     /\ response' = NewResponse(b.config)
     /\ pc' = IF b.thrown THEN "done" ELSE "dispatched"
     /\ outcome' = IF b.thrown THEN Thrown ELSE Pending
     /\ env' = [cookie |-> cookie, upload |-> upload, fetchThrows |-> fetchThrows]
     /\ UNCHANGED <<defaults, streams, raw, rejection, res>>

\* the transport's future resolves: lines 272-299
TransportResolves(r) ==
  LET wraps == WantsDownload(options, streams)
      r1 == IF wraps THEN wrapResponseWithProgress(r) ELSE r
      filled == CopyFields(response, r1)
  IN /\ pc = "dispatched"
     /\ raw' = r
     /\ IF wraps /\ DownloadWrapThrows(r)
        THEN /\ res' = r
             /\ response' = response
             /\ pc' = "done"
             /\ outcome' = Rejected(Catch(MkError("wrap", "TypeError", "headers is undefined", "")))
        ELSE IF Get(options, kResponseType) = Str(rtStream)
        THEN /\ res' = r1
             /\ response' = [filled EXCEPT !.data =
                               IF r1.stream = "none" THEN Undefined ELSE Host("stream", r1.stream)]
             /\ pc' = "done"
             /\ outcome' = Resolved
        ELSE IF DecodeThrows(options, r1)
        THEN /\ res' = r1
             /\ response' = filled
             /\ pc' = "done"
             /\ outcome' = Rejected(Catch(MkError("decode", "TypeError", "decode threw", "")))
        ELSE /\ res' = r1
             /\ response' = filled
             /\ pc' = "decoding"
             /\ outcome' = Pending
     /\ UNCHANGED <<defaults, streams, env, args, options, sent, fetchCalls, rejection>>

\* the rejection handler dispatches once more after a failure that is no abort
TransportRejects_Retries(e) ==
  /\ pc = "dispatched"
  /\ rejection' = e
  /\ IF Catch(e) # CancelError /\ fetchCalls < 2
     THEN pc' = "dispatched" /\ fetchCalls' = fetchCalls + 1 /\ outcome' = outcome
     ELSE pc' = "done" /\ fetchCalls' = fetchCalls /\ outcome' = Rejected(Catch(e))
  /\ UNCHANGED <<defaults, streams, env, args, options, sent, raw, res, response>>

\* the transport's future rejects: lines 322-340
TransportRejects(e) ==
  /\ pc = "dispatched"
  /\ rejection' = e
  /\ pc' = "done"
  /\ outcome' = Rejected(Catch(e))
  /\ UNCHANGED <<defaults, streams, env, args, options, sent, fetchCalls, raw, res, response>>

\* lines 309-320, then the rejection handler
Settle(resp) ==
  IF Classify(options, res) THEN Resolved ELSE Rejected(Catch(HttpError(res, resp, options)))

\* the decode future resolves: lines 300-320
DecodeFulfilled ==
  /\ pc = "decoding"
  /\ DecodeResolves(options, res)
  /\ UNCHANGED <<fn, tr, mem, flight, meter>>
  /\ response' = [response EXCEPT !.data = ParseData(options, Decoded(options, res))]
  /\ outcome' = Settle(response')
  /\ pc' = "done"
  /\ UNCHANGED <<defaults, streams, env, args, options, sent, fetchCalls, raw, rejection, res>>

\* the decode future rejects: .catch(Object), then lines 309-320
DecodeRejected ==
  /\ pc = "decoding"
  /\ ~DecodeResolves(options, res)
  /\ UNCHANGED <<fn, tr, mem, flight, meter>>
  /\ outcome' = Settle(response)
  /\ pc' = "done"
  /\ UNCHANGED <<defaults, streams, env, args, options, sent, fetchCalls, raw, rejection, res,
                 response>>

\* the caller has the settled future and may call again
NextCall ==
  /\ pc = "done"
  /\ pc' = "idle"
  /\ args' = NoArgs
  /\ options' = Obj(<<>>)
  /\ sent' = NoSent
  /\ fetchCalls' = 0
  /\ raw' = NoRes
  /\ rejection' = NoError
  /\ res' = NoRes
  /\ response' = NewResponse(Undefined)
  /\ outcome' = Pending
  /\ env' = NoEnv
  /\ UNCHANGED <<defaults, streams, fn, tr, mem, flight, meter>>

\* a call of the public surface
Call ==
  /\ pc = "idle"
  /\ \E a \in Calls, cookie \in {Undefined, Str(<<"t","%","4","1">>), Str(<<"t","%">>)},
        upload \in {"ok", "ctorThrows", "wrapThrows"}, fetchThrows \in BOOLEAN :
       Request(a, cookie, upload, fetchThrows)
  /\ UNCHANGED <<fn, tr, mem, flight, meter>>

\* the transport settles its future
TransportSettles ==
  /\ pc = "dispatched"
  /\ \/ \E r \in Responses(args) : TransportResolves(r)
     \/ \E e \in Rejections : TransportRejects(e)
  /\ UNCHANGED <<fn, tr, mem, flight, meter>>

Next ==
  \/ Call
  \/ TransportSettles
  \/ DecodeFulfilled
  \/ DecodeRejected
  \/ NextCall

Spec == Init /\ [][Next]_vars

\* ------------------------------------------------------------------ claims
Dispatched == sent.form # "none"
CallConfigOf == response.config
TransportResolved == pc = "done" /\ raw # NoRes
TransportRejected == pc = "done" /\ rejection # NoError
IsStreamType == Get(options, kResponseType) = Str(rtStream)
HasValidator == Truthy(Get(options, kValidateStatus))
\* the classification was reached: no exception left the first callback
Classified ==
  /\ TransportResolved
  /\ ~IsStreamType
  /\ ~(WantsDownload(options, streams) /\ DownloadWrapThrows(raw))
  /\ ~DecodeThrows(options, res)
\* the validator, or without one the ok flag, says not ok
NotOkFor(r) ==
  IF HasValidator THEN ~ApplyValidator(Get(options, kValidateStatus), r.status) ELSE ~r.ok
IsHttpFailure ==
  outcome.state = "rejected" /\ outcome.error.origin = "http" /\ outcome.error.isAxiosError

\* C1: the options handed to the transport carry a body only when the
\* upper-cased method is neither GET nor HEAD.
C1_BodyOnlyWithBodyMethod ==
  (Dispatched /\ sent.form = "options" /\ sent.method \in {mGET, mHEAD})
     => sent.body = Undefined

IsAbortValue(e) == e.kind = "error" /\ (e.name = "AbortError" \/ e.code = "ERR_CANCELED")
C4_CanonicalCancel ==
  (TransportRejected /\ IsAbortValue(rejection)) =>
     /\ outcome.state = "rejected"
     /\ outcome.error.origin # rejection.origin
     /\ outcome.error.name = "AbortError"
     /\ outcome.error.message = "canceled"
     /\ outcome.error.response = <<>>
     /\ isCancel(outcome.error) = JsTrue

C4_Witness ==
  /\ TransportRejected /\ rejection = AxiosLikeCancel
  /\ outcome.error.name = "AbortError" /\ outcome.error.response = <<>>

\* C5: a transport rejection that is no recognizable abort, null and undefined
\* included, makes the call reject with exactly the value the transport
\* rejected with.
C5_OtherRejectionsUnchanged ==
  (TransportRejected /\ ~IsAbortValue(rejection)) =>
     outcome.state = "rejected" /\ outcome.error = rejection

\* C6: for every representation other than the raw stream, explicit 'text'
\* included, a decoded string that is valid JSON yields the parsed value as
\* data, and one that is not stays the unchanged text.
DecodedString ==
  Classified /\ DecodeResolves(options, res) /\ TypeOf(Decoded(options, res)) = "string"
C6_JsonTextIsParsed ==
  DecodedString =>
     response.data = IF ParsesAsJson(Decoded(options, res).s)
                     THEN JsonParse(Decoded(options, res).s) ELSE Decoded(options, res)

\* C7: a failure of the decode step (the decode method throws, or its future
\* rejects) never rejects the call by itself: data stays undefined and the call
\* resolves when ok and rejects as an HTTP failure when not ok.
DecodeFailed ==
  /\ TransportResolved /\ ~IsStreamType
  /\ ~(WantsDownload(options, streams) /\ DownloadWrapThrows(raw))
  /\ (DecodeThrows(options, res) \/ ~DecodeResolves(options, res))
C7_DecodeFailureNotFatal ==
  DecodeFailed =>
     /\ response.data = Undefined
     /\ IF NotOkFor(res) THEN IsHttpFailure ELSE outcome.state = "resolved"

\* C8: the dispatched header mapping has only lower-cased names, no two names
\* that differ only by case, and for a name given several times the last
\* writer wins: the call's value over the defaults', and the orchestrator's
\* own authorization, content-type and XSRF headers over both.
NamesOf(ents) == { ToLowerCase(ents[i].k) : i \in 1..Len(ents) }
LastValue(ents, n) ==
  ents[CHOOSE i \in 1..Len(ents) :
         /\ ToLowerCase(ents[i].k) = n
         /\ \A j \in (i + 1)..Len(ents) : ToLowerCase(ents[j].k) # n].v
CallHeaders == EntriesOf(Get(CallConfigOf, kHeaders))
DefaultHeaders == EntriesOf(Get(defaults, kHeaders))
OrchestratorNames ==
  { hAuthorization, hContentType, ToLowerCase(ToChars(Get(options, kXsrfHeaderName))) }
C8_HeadersFoldedLastWins ==
  Dispatched =>
     LET hs == EntriesOf(sent.headers)
     IN /\ \A i \in 1..Len(hs) : hs[i].k = ToLowerCase(hs[i].k)
        /\ \A i, j \in 1..Len(hs) : i # j => hs[i].k # hs[j].k
        /\ \A n \in (NamesOf(CallHeaders) \cup NamesOf(DefaultHeaders)) \ OrchestratorNames :
              GetE(hs, n) = IF n \in NamesOf(CallHeaders)
                            THEN LastValue(CallHeaders, n) ELSE LastValue(DefaultHeaders, n)

C8_Witness ==
  /\ Dispatched
  /\ NamesOf(DefaultHeaders) = {hxa, hContentType}
  /\ Len(CallHeaders) = 2 /\ NamesOf(CallHeaders) = {hxa}
  /\ Get(sent.headers, hxa) = Str(<<"4">>)
  /\ Len(EntriesOf(sent.headers)) = 2

\* C9: a resolved body that is a plain structured object is dispatched as its
\* JSON serialization with content-type application/json whatever content-type
\* was configured; a form-data-like or text-like body is dispatched unchanged
\* and the content-type header is the configured one, if any.
ResolvedBody == ResolveData(options, args[4])
ConfiguredHeaders == EntriesOf(Get(options, kHeaders))
C9_JsonBodyEncoding ==
  Dispatched =>
     /\ (ResolvedBody.t \in {"object", "array"} /\ ~HasAppend(ResolvedBody) /\ ~HasText(ResolvedBody)) =>
           /\ sent.body = Str(Stringify(ResolvedBody))
           /\ Get(sent.headers, hContentType) = Str(ApplicationJson)
           /\ \A i \in 1..Len(EntriesOf(sent.headers)) :
                 ToLowerCase(EntriesOf(sent.headers)[i].k) = hContentType
                    => EntriesOf(sent.headers)[i].k = hContentType
     /\ (HasAppend(ResolvedBody) \/ HasText(ResolvedBody)) =>
           /\ sent.body = ResolvedBody
           /\ Get(sent.headers, hContentType) =
                IF hContentType \in NamesOf(ConfiguredHeaders)
                THEN LastValue(ConfiguredHeaders, hContentType) ELSE Undefined

C9_Witness ==
  /\ Dispatched /\ ResolvedBody = JsonWorld
  /\ NamesOf(CallHeaders) = {hContentType} /\ hContentType \in NamesOf(DefaultHeaders)
  /\ sent.body = Str(Stringify(JsonWorld))
  /\ Get(sent.headers, hContentType) = Str(ApplicationJson)

C9_WitnessForm ==
  /\ Dispatched /\ ResolvedBody = FormBody
  /\ NamesOf(CallHeaders) = {hContentType}
  /\ Get(sent.headers, hContentType) = Str(<<"m">>)

\* C10: with a base URL and a target that is not absolute the dispatched URL is
\* base and target joined by exactly one slash, whether or not the base ends
\* and the target starts with one; an absolute target is dispatched unchanged.
RECURSIVE StripTrailing(_)
StripTrailing(chars) ==
  IF chars # <<>> /\ chars[Len(chars)] = "/"
  THEN StripTrailing(SubSeq(chars, 1, Len(chars) - 1)) ELSE chars
RECURSIVE StripLeading(_)
StripLeading(chars) ==
  IF chars # <<>> /\ Head(chars) = "/" THEN StripLeading(Tail(chars)) ELSE chars
IsAbsolute(chars) ==
  \E i \in 1..(Len(chars) - 2) : chars[i] = ":" /\ chars[i + 1] = "/" /\ chars[i + 2] = "/"
TargetOf == ArgUrl(args[1])
C10_BaseJoinedByOneSlash ==
  (Dispatched /\ Truthy(Get(options, kBaseURL)) /\ ~Truthy(Get(options, kParams))) =>
     sent.url = IF IsAbsolute(TargetOf.s) THEN TargetOf
                ELSE Str(StripTrailing(Get(options, kBaseURL).s) \o <<"/">>
                         \o StripLeading(TargetOf.s))

\* C14: in one call the transport function is invoked at most once, and exactly
\* once when the Building phase completed, whatever the outcome and also when
\* building the upload-progress request descriptor failed.
C14_TransportCalledOnce ==
  /\ fetchCalls <= 1
  /\ Dispatched => fetchCalls = 1
  /\ (pc # "idle" /\ ~Dispatched) => fetchCalls = 0

\* the upload descriptor was wanted and could not be built, the call is settled
C14_Witness ==
  /\ pc = "done" /\ outcome.state = "rejected" /\ rejection # NoError
  /\ WantsUpload(options, sent.body, sent.method, streams) /\ sent.form = "options"
  /\ fetchCalls = 1

\* C23: when an upload-progress callback is configured and building or
\* instrumenting the request descriptor throws, the transport is invoked once
\* with the plain URL and the options record that the same call without the
\* callback hands over, and the failure is not surfaced to the caller.
Without(v, key) ==
  IF v.t = "object" THEN Obj(SelectSeq(v.e, LAMBDA en : en.k # key)) ELSE v
PlainCall ==
  Build(Without(defaults, kOnUploadProgress), streams, Without(args[1], kOnUploadProgress),
        Without(args[2], kOnUploadProgress), args[3], args[4], env.cookie, "ok",
        env.fetchThrows)
C23_UploadFailureFallsBack ==
  (pc # "idle" /\ env.upload # "ok") =>
     /\ fetchCalls = 1
     /\ sent.form = "options"
     /\ sent = PlainCall.sent
     /\ (outcome = Thrown) = PlainCall.thrown

\* a body and an upload callback on a platform with streams, the wrapping and
\* the Request constructor each failing once, the call dispatched all the same
C23_Witness ==
  /\ pc = "dispatched" /\ env.upload = "wrapThrows" /\ streams
  /\ Truthy(Get(options, kOnUploadProgress)) /\ sent.body # Undefined
  /\ sent.form = "options" /\ sent.headers # Obj(<<>>)

\* C25: a call reports every failure through the future it returns: with a
\* missing url, a throwing request transform, a throwing params serializer or
\* a transport that throws, no exception leaves the call synchronously.
C25_NeverThrowsSynchronously == outcome.state # "thrown"

\* C19: the config of the Response a call resolves with, and of the Response
\* attached to an HTTP-failure error, is the effective configuration (the
\* defaults merged with the call's configuration), for every way of calling.
C19_ResponseConfigIsEffective ==
  (TransportResolved /\ (outcome.state = "resolved" \/ IsHttpFailure)) =>
     /\ response.config = options
     /\ IsHttpFailure => outcome.error.response[1].config = options

\* C20: a dispatched call that is settled is in exactly one of Succeeded,
\* HTTP-Failed, Network-Failed and Cancelled; Succeeded and HTTP-Failed are
\* reached only after the transport resolved, Network-Failed and Cancelled only
\* after the transport rejected.
Succeeded == outcome.state = "resolved"
HttpFailed == IsHttpFailure /\ outcome.error.response # <<>>
Cancelled == outcome.state = "rejected" /\ outcome.error = CancelError
NetworkFailed == outcome.state = "rejected" /\ ~HttpFailed /\ ~Cancelled
C20_TerminalStates ==
  (pc = "done" /\ outcome.state # "thrown") =>
     /\ Succeeded \/ HttpFailed \/ NetworkFailed \/ Cancelled
     /\ (Succeeded \/ HttpFailed) => (raw # NoRes /\ rejection = NoError)
     /\ (NetworkFailed \/ Cancelled) => (rejection # NoError /\ raw = NoRes)

\* ------------------------------------------------------- the static helpers
\* the variables of a call of redaxios, with no call made
CallIdle ==
  /\ defaults = Obj(<<>>) /\ streams = FALSE /\ pc = "idle" /\ args = NoArgs
  /\ options = Obj(<<>>) /\ sent = NoSent /\ fetchCalls = 0 /\ raw = NoRes
  /\ rejection = NoError /\ res = NoRes /\ response = NewResponse(Undefined)
  /\ outcome = Pending /\ env = NoEnv

\* the values isCancel is asked about: errors by name, code and message, null, undefined
ErrorInputs ==
  { MkError("sample", n, m, c) : n \in {"AbortError", "Error"}, m \in {"canceled", "network error"},
                                 c \in {"", "ERR_CANCELED"} }
  \cup { [MkError("sample", "", "", "") EXCEPT !.kind = "null"],
         [MkError("sample", "", "", "") EXCEPT !.kind = "undefined"] }

\* configuration trees with nested objects under headers and params, names in
\* both casings, a nested object one level deeper, and an array field
kQ == <<"q">>
TreeHeadersA ==
  { <<>>, <<Ent(kHeaders, Obj(<<Ent(hXA, Str(<<"1">>))>>))>>,
    <<Ent(kHeaders, Obj(<<Ent(hxa, Str(<<"1">>)), Ent(<<"b">>, Str(<<"2">>))>>))>> }
TreeHeadersB ==
  { <<>>, <<Ent(kHeaders, Obj(<<Ent(hxa, Str(<<"2">>))>>))>>,
    <<Ent(kHeaders, Obj(<<Ent(hXA, Str(<<"3">>)), Ent(<<"c">>, Str(<<"4">>))>>))>> }
TreeParamsA ==
  { <<>>, <<Ent(kParams, Obj(<<Ent(<<"P">>, Str(<<"1">>))>>))>>,
    <<Ent(kParams, Obj(<<Ent(<<"p">>, Str(<<"1">>)),
                         Ent(kQ, Obj(<<Ent(<<"Z">>, Str(<<"1">>))>>))>>))>> }
TreeParamsB ==
  { <<>>, <<Ent(kParams, Obj(<<Ent(<<"p">>, Str(<<"2">>))>>))>>,
    <<Ent(kParams, Obj(<<Ent(kQ, Obj(<<Ent(<<"z">>, Str(<<"2">>))>>))>>))>> }
TreeArrays == { <<>>, <<Ent(kTransformRequest, Arr(<<Fn("tfEncode")>>))>> }
TreeDataA == { <<>>, <<Ent(kData, Str(<<"x">>))>> }
TreeDataB == { <<>>, <<Ent(kData, JsNull)>>, <<Ent(kData, Str(<<"y">>))>> }
TreesA ==
  { Obj(h \o q \o t \o d) :
      h \in TreeHeadersA, q \in TreeParamsA, t \in TreeArrays, d \in TreeDataA }
TreesB ==
  { Obj(q \o h \o t \o d) :
      h \in TreeHeadersB, q \in TreeParamsB, t \in TreeArrays, d \in TreeDataB }

\* redaxios.isCancel(error)
CallIsCancel ==
  /\ fn.op = "none"
  /\ \E e \in ErrorInputs : fn' = [op |-> "isCancel", arg |-> <<e>>, out |-> isCancel(e)]
  /\ UNCHANGED <<call, tr, mem, flight, meter>>

\* redaxios.isAxiosError(payload)
CallIsAxiosError ==
  /\ fn.op = "none"
  /\ \E e \in ErrorInputs \cup Rejections \cup {HttpError(NoRes, NewResponse(Undefined), Obj(<<>>))} :
        fn' = [op |-> "isAxiosError", arg |-> <<e>>, out |-> isAxiosError(e)]
  /\ UNCHANGED <<call, tr, mem, flight, meter>>

\* redaxios.mergeConfig(config1, config2)
CallMergeConfig ==
  /\ fn.op = "none"
  /\ \E a \in TreesA, b \in TreesB :
        fn' = [op |-> "mergeConfig", arg |-> <<a, b>>, out |-> mergeConfig(a, b)]
  /\ UNCHANGED <<call, tr, mem, flight, meter>>

\* the helper has returned
HelperReturns ==
  /\ fn.op # "none"
  /\ fn' = NoFn
  /\ UNCHANGED <<call, tr, mem, flight, meter>>

HelpersInit == CallIdle /\ fn = NoFn /\ tr = NoTr /\ mem = NoMem /\ flight = NoFlight /\ meter = NoMeter
HelpersNext == CallIsCancel \/ CallIsAxiosError \/ CallMergeConfig \/ HelperReturns
SpecHelpers == HelpersInit /\ [][HelpersNext]_vars

\* C11: isCancel returns the boolean true for a name AbortError, a code
\* ERR_CANCELED or a message "canceled", and the boolean false for every other
\* input, null and undefined included.
C11_IsCancelIsBoolean ==
  fn.op = "isCancel" =>
     LET e == fn.arg[1]
     IN fn.out = IF e.kind = "error"
                     /\ (e.name = "AbortError" \/ e.code = "ERR_CANCELED" \/ e.message = "canceled")
                  THEN JsTrue ELSE JsFalse

\* C18 (as claimed): for every key k mapped to a nested object in both trees,
\* headers included and nested names of any casing,
\* mergeConfig(A, B)[k] = mergeConfig(A[k], B[k]).
IsNested(v) == TypeOf(v) = "object" /\ v.t # "null"
SharedNested(a, b) ==
  { k \in { EntriesOf(a)[i].k : i \in 1..Len(EntriesOf(a)) } :
      IsNested(Get(a, k)) /\ IsNested(Get(b, k)) }
C18_MergeIsRecursive ==
  fn.op = "mergeConfig" =>
     \A k \in SharedNested(fn.arg[1], fn.arg[2]) :
        Get(fn.out, k) = mergeConfig(Get(fn.arg[1], k), Get(fn.arg[2], k))

\* C18 (amended): for every shared key k other than headers mapped to a nested
\* object in both trees, mergeConfig(A, B)[k] = mergeConfig(A[k], B[k]); under
\* headers the two mappings are merged with their names lower-cased.
C18_MergeIsRecursiveFoldingHeaders ==
  fn.op = "mergeConfig" =>
     \A k \in SharedNested(fn.arg[1], fn.arg[2]) :
        Get(fn.out, k) = IF k = kHeaders
                         THEN deepMerge(Get(fn.arg[1], k), Get(fn.arg[2], k), TRUE)
                         ELSE mergeConfig(Get(fn.arg[1], k), Get(fn.arg[2], k))

\* C21: in a merge with a base that is not a sequence, every key of the
\* overrides whose incoming value is a scalar, null or an array holds exactly
\* the incoming value in the result.
IsStructured(v) == v.t = "object"
C21_IncomingValueReplaces ==
  fn.op = "mergeConfig" =>
     \A i \in 1..Len(EntriesOf(fn.arg[2])) :
        ~IsStructured(EntriesOf(fn.arg[2])[i].v) =>
           Get(fn.out, EntriesOf(fn.arg[2])[i].k) = EntriesOf(fn.arg[2])[i].v

\* params in both trees with names of both casings and an object one level
\* deeper, headers in both trees with one name in two casings
C18_Witness ==
  /\ fn.op = "mergeConfig"
  /\ SharedNested(fn.arg[1], fn.arg[2]) = {kHeaders, kParams, kTransformRequest}
  /\ Get(Get(Get(fn.out, kParams), kQ), <<"Z">>) = Str(<<"1">>)
  /\ Get(Get(Get(fn.out, kParams), kQ), <<"z">>) = Str(<<"2">>)
  /\ Get(Get(fn.out, kHeaders), hxa) = Str(<<"3">>)
  /\ Len(EntriesOf(Get(fn.out, kHeaders))) = 3

\* ------------------------------------------------- the instrumented stream
MaxChunks == 3
MaxChunkBytes == 2
MaxTotal == 4

\* wrapStreamWithProgress of stream.js ("stream"), withProgress of progress.js
\* ("progress"), wrapStream of stream.js ("minimal")
Impls == {"stream", "progress", "minimal"}
Delayed(impl) == impl \in {"stream", "progress"}

\* the chunk sequences of a body: each chunk has its place and its byteLength
ChunkSeqs ==
  UNION { { [i \in 1..n |-> [id |-> i, len |-> f[i]]] : f \in [1..n -> 0..MaxChunkBytes] } :
          n \in 0..MaxChunks }

RECURSIVE SumLen(_)
SumLen(chunks) == IF chunks = <<>> THEN 0 ELSE Head(chunks).len + SumLen(Tail(chunks))

\* the event reports the chunk's bytes as the running total
createProgressEvent_LoadedIsBytes(loaded, total, bytes, isUpload, atFlush) ==
  LET lengthComputable == total > 0
  IN [loaded |-> bytes,
      total |-> IF lengthComputable THEN <<total>> ELSE <<>>,
      progress |-> IF lengthComputable THEN <<bytes, total>> ELSE <<>>,
      bytes |-> bytes, upload |-> isUpload, download |-> ~isUpload,
      lengthComputable |-> lengthComputable, flush |-> atFlush]

\* createProgressEvent / toAxiosProgress / progressEvent: progress is the ratio
\* loaded / total, kept as the pair <<loaded, total>>; atFlush tells where the
\* event was emitted and is no field of the event
createProgressEvent(loaded, total, bytes, isUpload, atFlush) ==
  LET lengthComputable == total > 0
  IN [loaded |-> loaded,
      total |-> IF lengthComputable THEN <<total>> ELSE <<>>,
      progress |-> IF lengthComputable THEN <<loaded, total>> ELSE <<>>,
      bytes |-> bytes, upload |-> isUpload, download |-> ~isUpload,
      lengthComputable |-> lengthComputable, flush |-> atFlush]

\* the guard of the three wrappers: if (!onProgress || !stream) return stream,
\* and in wrapStream also if (typeof TransformStream === 'undefined') return stream
Pipes(impl, hasStream, hasCallback, hasTransformStream) ==
  hasStream /\ hasCallback /\ (impl = "minimal" => hasTransformStream)

\* the locals of a wrapper call and the stream it returns
NewTransform(impl, total, isUpload, source, hasStream, hasCallback, hasTransformStream) ==
  [impl |-> impl, total |-> total, upload |-> isUpload, source |-> source,
   input |-> IF hasStream THEN source ELSE <<>>,
   stream |-> hasStream, onProgress |-> hasCallback,
   out |-> <<>>, events |-> <<>>, previousChunk |-> <<>>, transferredBytes |-> 0,
   returned |-> IF Pipes(impl, hasStream, hasCallback, hasTransformStream)
                THEN "piped" ELSE "input",
   phase |-> "open"]

\* the transform emits nothing and hands on the chunk received one step earlier
transform_Buffers(t) ==
  LET chunk == Head(t.input)
  IN [t EXCEPT !.input = Tail(t.input),
               !.out = t.out \o t.previousChunk,
               !.previousChunk = <<chunk>>]

\* transform(chunk, controller) of the TransformStream
transform(t) ==
  LET chunk == Head(t.input)
  IN IF Delayed(t.impl)
     THEN LET loaded == IF t.previousChunk # <<>>
                        THEN t.transferredBytes + t.previousChunk[1].len
                        ELSE t.transferredBytes
          IN [t EXCEPT !.input = Tail(t.input),
                       !.out = Append(t.out, chunk),
                       !.transferredBytes = loaded,
                       !.events = IF t.previousChunk # <<>>
                                  THEN Append(t.events,
                                         createProgressEvent(loaded, t.total,
                                           t.previousChunk[1].len, t.upload, FALSE))
                                  ELSE t.events,
                       !.previousChunk = <<chunk>>]
     ELSE LET loaded == t.transferredBytes + chunk.len
          IN [t EXCEPT !.input = Tail(t.input),
                       !.transferredBytes = loaded,
                       !.events = Append(t.events,
                                    createProgressEvent(loaded, t.total, chunk.len,
                                                        t.upload, FALSE)),
                       !.out = Append(t.out, chunk)]

\* the end of the stream passes without an event
flush_Silent(t) == [t EXCEPT !.phase = "closed"]

\* flush() of the TransformStream; wrapStream has none
flush(t) ==
  IF Delayed(t.impl) /\ t.previousChunk # <<>>
  THEN LET loaded == t.transferredBytes + t.previousChunk[1].len
       IN [t EXCEPT !.phase = "closed",
                    !.transferredBytes = loaded,
                    !.events = Append(t.events,
                                 createProgressEvent(loaded, t.total,
                                   t.previousChunk[1].len, t.upload, TRUE))]
  ELSE [t EXCEPT !.phase = "closed"]

\* a wrapper is called on a body stream
StreamWrap ==
  /\ tr.impl = "none"
  /\ \E impl \in Impls, total \in 0..MaxTotal, isUpload \in BOOLEAN, source \in ChunkSeqs,
        hasStream \in BOOLEAN, hasCallback \in BOOLEAN, hasTransformStream \in BOOLEAN :
        tr' = NewTransform(impl, total, isUpload, source, hasStream, hasCallback,
                           hasTransformStream)
  /\ UNCHANGED <<call, fn, mem, flight, meter>>

\* the source delivers its next chunk to the transform
StreamTransform ==
  /\ tr.returned = "piped" /\ tr.phase = "open" /\ tr.input # <<>>
  /\ tr' = transform(tr)
  /\ UNCHANGED <<call, fn, mem, flight, meter>>

\* the source is exhausted
StreamFlush ==
  /\ tr.returned = "piped" /\ tr.phase = "open" /\ tr.input = <<>>
  /\ tr' = flush(tr)
  /\ UNCHANGED <<call, fn, mem, flight, meter>>

\* the stream is dropped
StreamRelease ==
  /\ tr.phase = "closed" \/ tr.returned = "input"
  /\ tr' = NoTr
  /\ UNCHANGED <<call, fn, mem, flight, meter>>

StreamInit == CallIdle /\ fn = NoFn /\ tr = NoTr /\ mem = NoMem /\ flight = NoFlight /\ meter = NoMeter
StreamNext == StreamWrap \/ StreamTransform \/ StreamFlush \/ StreamRelease
SpecStream == StreamInit /\ [][StreamNext]_vars

\* C15: with a known positive total, also one smaller than the bytes
\* transferred, every progress event has progress in [0, 1], and every event
\* emitted before the end-of-stream flush has progress strictly below 1.
C15_ProgressClamped ==
  (tr.returned = "piped" /\ tr.total > 0) =>
     \A i \in 1..Len(tr.events) :
        LET ratio == tr.events[i].progress
        IN /\ ratio # <<>>
           /\ 0 <= ratio[1] /\ ratio[1] <= ratio[2]
           /\ ~tr.events[i].flush => ratio[1] < ratio[2]

\* C16: the instrumented stream outputs the chunks of its input unchanged and
\* in order, each in the transform step that receives it; when the callback or
\* the stream is absent the input stream itself is returned.
C16_PassThrough ==
  tr.impl # "none" =>
     /\ tr.returned = "piped" => tr.out \o tr.input = tr.source
     /\ tr.phase = "closed" => tr.out = tr.source
     /\ (~tr.onProgress \/ ~tr.stream) => (tr.returned = "input" /\ tr.out = <<>>)

C16_Witness ==
  /\ tr.returned = "piped" /\ tr.phase = "closed"
  /\ Len(tr.source) = MaxChunks /\ tr.out = tr.source
  /\ tr.source[1].len # tr.source[2].len

\* C17: under the delayed-emission policy the end-of-stream flush of a stream
\* of at least one chunk emits exactly one event, the last of the transfer,
\* whose loaded is the sum of the byte lengths of all chunks; an empty stream
\* emits no event.
C17_FlushEmitsFinalEvent ==
  (tr.returned = "piped" /\ Delayed(tr.impl) /\ tr.phase = "closed") =>
     IF tr.source = <<>> THEN tr.events = <<>>
     ELSE /\ Cardinality({ i \in 1..Len(tr.events) : tr.events[i].flush }) = 1
          /\ tr.events[Len(tr.events)].flush
          /\ tr.events[Len(tr.events)].loaded = SumLen(tr.source)

C17_Witness ==
  /\ tr.returned = "piped" /\ Delayed(tr.impl) /\ tr.phase = "closed"
  /\ Len(tr.source) = MaxChunks /\ Len(tr.events) = MaxChunks
  /\ tr.events[Len(tr.events)].flush /\ tr.events[Len(tr.events)].loaded = SumLen(tr.source)
  /\ tr.source[Len(tr.source)].len > 0

\* C24: in each of the three implementations a piped stream delivers one event
\* per chunk, in chunk order: the i-th event has bytes equal to the byte length
\* of the i-th chunk and loaded equal to the byte lengths of the first i chunks
\* together; after the stream has ended there are as many events as chunks.
C24_EventPerChunk ==
  tr.returned = "piped" =>
     /\ Len(tr.events) <= Len(tr.source)
     /\ tr.phase = "closed" => Len(tr.events) = Len(tr.source)
     /\ \A i \in 1..Len(tr.events) :
           /\ tr.events[i].bytes = tr.source[i].len
           /\ tr.events[i].loaded = SumLen(SubSeq(tr.source, 1, i))

\* a stream of three chunks, the second one empty, has ended in the copy of
\* progress.js with three events
C24_Witness ==
  /\ tr.returned = "piped" /\ tr.phase = "closed" /\ tr.impl = "progress"
  /\ Len(tr.source) = 3 /\ tr.source[2].len = 0 /\ tr.source[1].len > 0
  /\ Len(tr.events) = 3 /\ tr.events[3].loaded = SumLen(tr.source)

\* the same for the immediate wrapper of stream.js
C24_WitnessImmediate ==
  /\ tr.returned = "piped" /\ tr.phase = "closed" /\ tr.impl = "minimal"
  /\ Len(tr.source) = 3 /\ Len(tr.events) = 3 /\ tr.events[3].loaded = SumLen(tr.source)

\* ------------------------------------------------------ objects by reference
\* An object or array lives in a cell of the heap and is held through a
\* reference, so that two holders of the same object see each other's writes.
Ref(n) == [t |-> "ref", s |-> <<ToString(n)>>, e |-> <<>>]
IsRef(v) == v.t = "ref"
At(heap, v) == CHOOSE n \in 1..Len(heap) : ToString(n) = v.s[1]
Cell(kind, entries) == [kind |-> kind, e |-> entries]

\* typeof v, Array.isArray(v), the for-in entries of v, obj[key] = value
hTypeOf(v) == IF IsRef(v) THEN "object" ELSE TypeOf(v)
hIsArray(heap, v) == IsRef(v) /\ heap[At(heap, v)].kind = "array"
hEntriesOf(heap, v) == IF IsRef(v) THEN heap[At(heap, v)].e ELSE EntriesOf(v)
hGet(heap, v, key) == GetE(hEntriesOf(heap, v), key)
hPut(heap, n, key, value) == [heap EXCEPT ![n].e = PutE(@, key, value)]

RECURSIVE hAlloc(_, _)
RECURSIVE hAllocEntries(_, _, _, _)
RECURSIVE Deep(_, _)
RECURSIVE hDeepMerge(_, _, _, _)
RECURSIVE hCopyKeys(_, _, _, _, _)
RECURSIVE hMergeKeys(_, _, _, _, _)

\* an object literal is evaluated: one new cell per object and array in it
hAllocEntries(heap, ents, n, acc) ==
  IF n > Len(ents) THEN [heap |-> heap, ents |-> acc]
  ELSE LET a == hAlloc(heap, ents[n].v)
       IN hAllocEntries(a.heap, ents, n + 1, Append(acc, Ent(ents[n].k, a.val)))
hAlloc(heap, value) ==
  IF value.t \in {"object", "array"}
  THEN LET r == hAllocEntries(heap, value.e, 1, <<>>)
       IN [heap |-> Append(r.heap, Cell(value.t, r.ents)), val |-> Ref(Len(r.heap) + 1)]
  ELSE [heap |-> heap, val |-> value]

\* the tree of values reachable from v
Deep(heap, v) ==
  IF IsRef(v)
  THEN LET c == heap[At(heap, v)]
       IN [t |-> c.kind, s |-> <<>>,
           e |-> [i \in 1..Len(c.e) |-> Ent(c.e[i].k, Deep(heap, c.e[i].v))]]
  ELSE v

\* deepMerge on the heap: out = {} is a new cell, out[key] = opts[i] stores the
\* value or the reference opts holds, the recursion makes a further new cell
hCopyKeys(heap, out, ents, n, lowerCase) ==
  IF n > Len(ents) THEN heap
  ELSE LET key == IF lowerCase THEN ToLowerCase(ents[n].k) ELSE ents[n].k
       IN hCopyKeys(hPut(heap, out, key, ents[n].v), out, ents, n + 1, lowerCase)
hMergeKeys(heap, out, ents, n, lowerCase) ==
  IF n > Len(ents) THEN heap
  ELSE LET key == IF lowerCase THEN ToLowerCase(ents[n].k) ELSE ents[n].k
           value == ents[n].v
       IN IF Has(heap[out].e, key) /\ hTypeOf(value) = "object"
          THEN LET m == hDeepMerge(heap, GetE(heap[out].e, key), value, key = kHeaders)
               IN hMergeKeys(hPut(m.heap, out, key, m.val), out, ents, n + 1, lowerCase)
          ELSE hMergeKeys(hPut(heap, out, key, value), out, ents, n + 1, lowerCase)
hDeepMerge(heap, opts, overrides, lowerCase) ==
  IF hIsArray(heap, opts)
  THEN LET olds == [i \in 1..Len(hEntriesOf(heap, opts)) |-> hEntriesOf(heap, opts)[i].v]
           items == IF hIsArray(heap, overrides)
                    THEN [i \in 1..Len(hEntriesOf(heap, overrides)) |->
                            hEntriesOf(heap, overrides)[i].v]
                    ELSE <<overrides>>
       IN [heap |-> Append(heap, Cell("array", Arr(olds \o items).e)),
           val |-> Ref(Len(heap) + 1)]
  ELSE LET out == Len(heap) + 1
           h0 == Append(heap, Cell("object", <<>>))
           h1 == hCopyKeys(h0, out, hEntriesOf(heap, opts), 1, lowerCase)
           h2 == hMergeKeys(h1, out, hEntriesOf(heap, overrides), 1, lowerCase)
       IN [heap |-> h2, val |-> Ref(out)]

\* a request transform called as f(data, options.headers): tfSetHeader sets a
\* header on the headers object it is given, the others write nothing
hTransformThrows(f, headers) ==
  TransformThrows(f) \/ (f.s = <<"tfSetHeader">> /\ ~IsRef(headers))
hApplyTransform(heap, f, headers) ==
  IF f.s = <<"tfSetHeader">> /\ IsRef(headers)
  THEN hPut(heap, At(heap, headers), hXT, Str(<<"1">>))
  ELSE heap
RECURSIVE hRunTransforms(_, _, _, _)
hRunTransforms(heap, fs, n, headers) ==
  IF n > Len(fs) THEN [heap |-> heap, threw |-> FALSE]
  ELSE IF hTransformThrows(fs[n].v, headers) THEN [heap |-> heap, threw |-> TRUE]
  ELSE hRunTransforms(hApplyTransform(heap, fs[n].v, headers), fs, n + 1, headers)

\* redaxios(url, config) on the heap, lines 204-257: the objects it allocates
\* and the writes it and the transforms make
hBuild(heap, dflts, config) ==
  LET m == hDeepMerge(heap, dflts, config, FALSE)
      opts == m.val
      h1 == Append(m.heap, Cell("object", <<>>))
      customHeaders == Ref(Len(h1))
      list == hGet(h1, opts, kTransformRequest)
      t == IF Truthy(list) /\ ~hIsArray(h1, list) THEN [heap |-> h1, threw |-> TRUE]
           ELSE hRunTransforms(h1, hEntriesOf(h1, list), 1, hGet(h1, opts, kHeaders))
      hs == hDeepMerge(t.heap, hGet(t.heap, opts, kHeaders), customHeaders, TRUE)
  IN [heap |-> IF t.threw THEN t.heap ELSE hs.heap, options |-> opts, threw |-> t.threw]

\* the defaults clients are created with, and the configs calls are made with
HeapTrees ==
  { Obj(<<>>),
    Obj(<<Ent(kHeaders, Obj(<<Ent(hXA, Str(<<"d">>))>>))>>),
    Obj(<<Ent(kHeaders, Obj(<<Ent(hxa, Str(<<"2">>))>>)), Ent(kData, JsonWorld)>>),
    Obj(<<Ent(kParams, Obj(<<Ent(<<"a">>, Str(<<"1">>))>>)),
          Ent(kTransformRequest, Arr(<<Fn("tfEncode")>>))>>),
    Obj(<<Ent(kTransformRequest, Arr(<<Fn("tfSetHeader")>>))>>),
    Obj(<<Ent(kHeaders, Obj(<<Ent(hXA, Str(<<"4">>))>>)),
          Ent(kTransformRequest, Arr(<<Fn("tfVoid"), Fn("tfSetHeader")>>))>>) }

\* create(d1) and create(d2): two clients, each bound to its own defaults object
HeapCreate ==
  /\ mem.at = "none"
  /\ \E d1 \in HeapTrees, d2 \in HeapTrees :
        LET a1 == hAlloc(<<>>, d1)
            a2 == hAlloc(a1.heap, d2)
        IN mem' = [NoMem EXCEPT !.at = "ready", !.heap = a2.heap,
                                !.clients = <<a1.val, a2.val>>, !.created = <<d1, d2>>,
                                !.base = Len(a2.heap)]
  /\ UNCHANGED <<call, fn, tr, flight, meter>>

\* client c is called with a config literal, or without a config
HeapCall ==
  /\ mem.at = "ready"
  /\ \E c \in 1..Len(mem.clients), config \in HeapTrees \cup {Undefined} :
        LET a == hAlloc(mem.heap, config)
            b == hBuild(a.heap, mem.clients[c], a.val)
        IN mem' = [mem EXCEPT !.at = "called", !.heap = b.heap, !.caller = c,
                              !.config = a.val, !.options = b.options, !.threw = b.threw]
  /\ UNCHANGED <<call, fn, tr, flight, meter>>

\* the call is over: the objects it allocated are dropped
HeapCollect ==
  /\ mem.at = "called"
  /\ mem' = [mem EXCEPT !.at = "ready", !.heap = SubSeq(mem.heap, 1, mem.base),
                        !.caller = 0, !.config = Undefined, !.options = Undefined,
                        !.threw = FALSE]
  /\ UNCHANGED <<call, fn, tr, flight, meter>>

HeapInit == CallIdle /\ fn = NoFn /\ tr = NoTr /\ mem = NoMem /\ flight = NoFlight /\ meter = NoMeter
HeapNext == HeapCreate \/ HeapCall \/ HeapCollect
SpecHeap == HeapInit /\ [][HeapNext]_vars

\* the merge on the heap, read back as a tree, is the merge of the trees
HeapMergeAgrees ==
  \A a \in HeapTrees, b \in HeapTrees \cup {Undefined}, lowerCase \in BOOLEAN :
     LET x == hAlloc(<<>>, a)
         y == hAlloc(x.heap, b)
         m == hDeepMerge(y.heap, x.val, y.val, lowerCase)
     IN /\ Deep(m.heap, m.val) = deepMerge(a, b, lowerCase)
        /\ SubSeq(m.heap, 1, Len(y.heap)) = y.heap

\* the call on the heap, read back as trees, is the call on the trees
HeapBuildAgrees ==
  \A a \in HeapTrees, b \in HeapTrees :
     LET x == hAlloc(<<>>, a)
         y == hAlloc(x.heap, b)
         m == hBuild(y.heap, x.val, y.val)
     IN /\ m.threw = TransformsThrow(EffectiveOptions(a, b))
        /\ Deep(m.heap, m.options) = AfterTransforms(EffectiveOptions(a, b))

\* the client's defaults tree after a call with config, given the tree before
DefaultsAfter(dflts, config) ==
  LET x == hAlloc(<<>>, dflts)
      y == hAlloc(x.heap, config)
  IN Deep(hBuild(y.heap, x.val, y.val).heap, x.val)

\* C12: after any sequence of calls on a client, with any call configs, the
\* defaults tree of that client and of every other client, nested headers and
\* array fields included, equals its value at client creation.
C12_DefaultsNeverMutated ==
  mem.at # "none" =>
     \A c \in 1..Len(mem.clients) : Deep(mem.heap, mem.clients[c]) = mem.created[c]

\* -------------------------------------------------- several calls in flight
\* Each call of redaxios has its own locals (lines 204-257) and each wrapped
\* stream its own previousChunk and transferredBytes (stream.js 120-122); the
\* client's defaults object (line 209) and the platform are what the calls
\* share. flight.defaults is that object as the calls so far have left it.
IdleSlot ==
  [pc |-> "idle", args |-> NoArgs, options |-> Obj(<<>>), sent |-> NoSent, fetchCalls |-> 0,
   raw |-> NoRes, rejection |-> NoError, res |-> NoRes, response |-> NewResponse(Undefined),
   outcome |-> Pending, down |-> NoTr]

\* what the caller, the transport or a body stream delivers to one call
NoInput ==
  [kind |-> "none", a |-> NoArgs, cookie |-> Undefined, upload |-> "ok", fetchThrows |-> FALSE,
   r |-> NoRes, e |-> NoError, impl |-> "none", source |-> <<>>, total |-> 0]

\* redaxios(...) up to the transport's invocation
StartStep(dflts, hasStreams, in) ==
  LET b == Build(dflts, hasStreams, in.a[1], in.a[2], in.a[3], in.a[4], in.cookie, in.upload,
                 in.fetchThrows)
  IN [IdleSlot EXCEPT !.args = in.a, !.options = b.options, !.sent = b.sent,
                      !.fetchCalls = b.calls, !.response = NewResponse(b.config),
                      !.pc = IF b.thrown THEN "done" ELSE "dispatched",
                      !.outcome = IF b.thrown THEN Thrown ELSE Pending]

\* whether the response's body is piped through a progress transform
PipesDownload(c, hasStreams, r) ==
  WantsDownload(c.options, hasStreams) /\ ~DownloadWrapThrows(r) /\ r.stream # "none"

\* the first callback on the transport's future, lines 272-299
ResolveStep(c, hasStreams, in) ==
  LET r == in.r
      wraps == WantsDownload(c.options, hasStreams)
      r1 == IF wraps THEN wrapResponseWithProgress(r) ELSE r
      filled == CopyFields(c.response, r1)
      piped == IF PipesDownload(c, hasStreams, r)
               THEN NewTransform(in.impl, in.total, FALSE, in.source, TRUE, TRUE, TRUE)
               ELSE NoTr
  IN IF wraps /\ DownloadWrapThrows(r)
     THEN [c EXCEPT !.raw = r, !.res = r, !.pc = "done",
                    !.outcome = Rejected(Catch(MkError("wrap", "TypeError",
                                                       "headers is undefined", "")))]
     ELSE IF Get(c.options, kResponseType) = Str(rtStream)
     THEN [c EXCEPT !.raw = r, !.res = r1, !.down = piped, !.pc = "done",
                    !.outcome = Resolved,
                    !.response = [filled EXCEPT !.data =
                                    IF r1.stream = "none" THEN Undefined
                                    ELSE Host("stream", r1.stream)]]
     ELSE IF DecodeThrows(c.options, r1)
     THEN [c EXCEPT !.raw = r, !.res = r1, !.down = piped, !.response = filled, !.pc = "done",
                    !.outcome = Rejected(Catch(MkError("decode", "TypeError",
                                                       "decode threw", "")))]
     ELSE [c EXCEPT !.raw = r, !.res = r1, !.down = piped, !.response = filled,
                    !.pc = "decoding"]

\* the rejection handler, lines 322-340
RejectStep(c, in) ==
  [c EXCEPT !.rejection = in.e, !.pc = "done", !.outcome = Rejected(Catch(in.e))]

\* the body stream delivers a chunk to the call's transform; the stream ends
ChunkStep(c) == [c EXCEPT !.down = transform(c.down)]
FlushStep(c) == [c EXCEPT !.down = flush(c.down)]

\* the decode future settles, lines 300-320
DecodeStep(c) ==
  LET resp == IF DecodeResolves(c.options, c.res)
              THEN [c.response EXCEPT !.data = ParseData(c.options, Decoded(c.options, c.res))]
              ELSE c.response
  IN [c EXCEPT !.response = resp, !.pc = "done",
               !.outcome = IF Classify(c.options, c.res) THEN Resolved
                           ELSE Rejected(Catch(HttpError(c.res, resp, c.options)))]

Step(c, in, dflts, hasStreams) ==
  CASE in.kind = "start" -> StartStep(dflts, hasStreams, in)
    [] in.kind = "resolve" -> ResolveStep(c, hasStreams, in)
    [] in.kind = "reject" -> RejectStep(c, in)
    [] in.kind = "chunk" -> ChunkStep(c)
    [] in.kind = "flush" -> FlushStep(c)
    [] in.kind = "decode" -> DecodeStep(c)
    [] OTHER -> c

\* the call that received the inputs of log, and no others, on a client of its own
RECURSIVE Alone(_, _, _, _, _)
Alone(log, n, c, dflts, hasStreams) ==
  IF n > Len(log) THEN c
  ELSE Alone(log, n + 1, Step(c, log[n], dflts, hasStreams), dflts, hasStreams)

\* the calls, responses and bodies of the concurrent runs
FlightConfigs ==
  { Obj(<<>>),
    Obj(<<Ent(kOnDownloadProgress, Fn("onDown"))>>),
    Obj(<<Ent(kOnDownloadProgress, Fn("onDown")), Ent(kResponseType, Str(rtStream))>>),
    Obj(<<Ent(kTransformRequest, Arr(<<Fn("tfSetHeader")>>))>>) }
FlightCalls == { Bodyless(vGet, UrlPlain, c) : c \in FlightConfigs }
FlightResponses ==
  BasicResponses
  \cup { [status |-> 200, ok |-> TRUE, hdrs |-> "headers", stream |-> "good",
          text |-> Stringify(JsonWorld), decode |-> "ok"] }
FlightBodies == { <<[id |-> 1, len |-> 2], [id |-> 2, len |-> 1]>> }

\* the body of call i is being read: by its decode method, or by the caller
\* who got the stream
Reading(c) ==
  /\ c.down.returned = "piped" /\ c.down.phase = "open"
  /\ c.pc = "decoding" \/ (c.pc = "done" /\ c.outcome = Resolved)

\* call i received input in and became c; the shared defaults object became d
Deliver(i, in, c, d) ==
  flight' = [calls |-> [flight.calls EXCEPT ![i] = c],
             logs |-> [flight.logs EXCEPT ![i] = Append(@, in)],
             defaults |-> d]

\* what the transport may settle the future of call c with
Settlements(c) ==
  { [NoInput EXCEPT !.kind = "reject", !.e = e] :
      e \in {AxiosLikeCancel, MkError("transport", "TypeError", "Network request failed", "")} }
  \cup { [NoInput EXCEPT !.kind = "resolve", !.r = r] :
           r \in { x \in FlightResponses : ~PipesDownload(c, streams, x) } }
  \cup { [NoInput EXCEPT !.kind = "resolve", !.r = r, !.impl = impl, !.source = source,
                         !.total = total] :
           r \in { x \in FlightResponses : PipesDownload(c, streams, x) },
           impl \in {"stream", "minimal"}, source \in FlightBodies,
           total \in {0} \cup { SumLen(b) : b \in FlightBodies } }

\* call i is made
FlightStart ==
  /\ \E i \in 1..Len(flight.calls) :
        /\ flight.calls[i].pc = "idle"
        /\ \E a \in FlightCalls, fetchThrows \in BOOLEAN :
              LET in == [NoInput EXCEPT !.kind = "start", !.a = a, !.fetchThrows = fetchThrows]
              IN Deliver(i, in, StartStep(flight.defaults, streams, in),
                         DefaultsAfter(flight.defaults, ArgConfig(a[1], a[2])))
  /\ UNCHANGED <<call, fn, tr, mem, meter>>

\* the transport settles the future of call i
FlightSettles ==
  /\ \E i \in 1..Len(flight.calls) :
        /\ flight.calls[i].pc = "dispatched"
        /\ \E in \in Settlements(flight.calls[i]) :
              Deliver(i, in,
                      IF in.kind = "resolve" THEN ResolveStep(flight.calls[i], streams, in)
                      ELSE RejectStep(flight.calls[i], in),
                      flight.defaults)
  /\ UNCHANGED <<call, fn, tr, mem, meter>>

\* the body stream of call i delivers its next chunk
FlightChunk ==
  /\ \E i \in 1..Len(flight.calls) :
        /\ Reading(flight.calls[i]) /\ flight.calls[i].down.input # <<>>
        /\ Deliver(i, [NoInput EXCEPT !.kind = "chunk"], ChunkStep(flight.calls[i]),
                   flight.defaults)
  /\ UNCHANGED <<call, fn, tr, mem, meter>>

\* the body stream of call i ends
FlightFlush ==
  /\ \E i \in 1..Len(flight.calls) :
        /\ Reading(flight.calls[i]) /\ flight.calls[i].down.input = <<>>
        /\ Deliver(i, [NoInput EXCEPT !.kind = "flush"], FlushStep(flight.calls[i]),
                   flight.defaults)
  /\ UNCHANGED <<call, fn, tr, mem, meter>>

\* the decode future of call i settles, once its body was read
FlightDecodes ==
  /\ \E i \in 1..Len(flight.calls) :
        /\ flight.calls[i].pc = "decoding"
        /\ flight.calls[i].down.returned = "piped" => flight.calls[i].down.phase = "closed"
        /\ Deliver(i, [NoInput EXCEPT !.kind = "decode"], DecodeStep(flight.calls[i]),
                   flight.defaults)
  /\ UNCHANGED <<call, fn, tr, mem, meter>>

\* the caller is done with call i
FlightRelease ==
  /\ \E i \in 1..Len(flight.calls) :
        /\ flight.calls[i].pc = "done" /\ ~Reading(flight.calls[i])
        /\ flight' = [flight EXCEPT !.calls[i] = IdleSlot, !.logs[i] = <<>>]
  /\ UNCHANGED <<call, fn, tr, mem, meter>>


FlightInit ==
  /\ defaults \in DefaultsSet /\ streams = TRUE
  /\ pc = "idle" /\ args = NoArgs /\ options = Obj(<<>>) /\ sent = NoSent /\ fetchCalls = 0
  /\ raw = NoRes /\ rejection = NoError /\ res = NoRes /\ response = NewResponse(Undefined)
  /\ outcome = Pending /\ env = NoEnv
  /\ fn = NoFn /\ tr = NoTr /\ mem = NoMem /\ meter = NoMeter
  /\ flight = [calls |-> <<IdleSlot, IdleSlot>>, logs |-> <<<<>>, <<>>>>, defaults |-> defaults]
FlightNext ==
  \/ FlightStart
  \/ FlightSettles
  \/ FlightChunk
  \/ FlightFlush
  \/ FlightDecodes
  \/ FlightRelease
SpecFlight == FlightInit /\ [][FlightNext]_vars

\* C13: with two calls in flight on one client, under every interleaving of
\* their transport settlements, decode settlements and progress events, each
\* call's dispatched request, Response, data, progress events and outcome are
\* those of the same call receiving the same inputs alone on that client as
\* it was created.
C13_CallsIndependent ==
  \A i \in 1..Len(flight.calls) :
     flight.calls[i] = Alone(flight.logs[i], 1, IdleSlot, defaults, streams)

\* ------------------------------------------------------------ the speedometer
\* createSpeedometer(samplesCount, min) of stream.js, lines 50-79, and
\* speedometer(samplesCount, min) of progress.js, lines 41-68: the same ring of
\* samplesCount slots. Slot i of the source is element i + 1 here; an unset
\* slot and an unset firstSampleTS are 0 (Date.now() is positive).
MaxPushes == 3
MaxSampleBytes == 2
MaxTick == 2
Capacities == {2, 3}
MinTimes == {0, 2}

\* new Array(samplesCount), head = 0, tail = 0, firstSampleTS undefined
NewMeter(samplesCount, min) ==
  [NoMeter EXCEPT !.at = "ready", !.samplesCount = samplesCount, !.min = min,
                  !.bytes = [i \in 1..samplesCount |-> 0],
                  !.timestamps = [i \in 1..samplesCount |-> 0], !.clock = 1]

\* while (i !== head) { bytesCount += bytes[i++]; i = i % samplesCount; }
RECURSIVE BytesCount(_, _, _, _)
BytesCount(bytes, i, head, samplesCount) ==
  IF i = head THEN 0
  ELSE bytes[i + 1] + BytesCount(bytes, (i + 1) % samplesCount, head, samplesCount)

\* Math.round(x / y) for x >= 0, y > 0
RoundDiv(x, y) == (2 * x + y) \div (2 * y)

\* push(chunkLength) with Date.now() = now
push(m, chunkLength, now) ==
  LET firstSampleTS == IF m.firstSampleTS = 0 THEN now ELSE m.firstSampleTS
      bytes == [m.bytes EXCEPT ![m.head + 1] = chunkLength]
      timestamps == [m.timestamps EXCEPT ![m.head + 1] = now]
      bytesCount == BytesCount(bytes, m.tail, m.head, m.samplesCount)
      head == (m.head + 1) % m.samplesCount
      tail == IF head = m.tail THEN (m.tail + 1) % m.samplesCount ELSE m.tail
      passed == IF timestamps[tail + 1] = 0 THEN 0 ELSE now - timestamps[tail + 1]
  IN [m EXCEPT !.clock = now, !.log = Append(@, [bytes |-> chunkLength, now |-> now]),
               !.firstSampleTS = firstSampleTS, !.bytes = bytes, !.timestamps = timestamps,
               !.head = head, !.tail = tail,
               !.out = IF now - firstSampleTS < m.min \/ passed = 0 THEN NoRate
                       ELSE [defined |-> TRUE, rate |-> RoundDiv(bytesCount * 1000, passed)]]

\* a speedometer is created
MeterCreate ==
  /\ meter.at = "none"
  /\ \E samplesCount \in Capacities, min \in MinTimes : meter' = NewMeter(samplesCount, min)
  /\ UNCHANGED <<call, fn, tr, mem, flight>>

\* a chunk is pushed, some milliseconds after the previous one
MeterPush ==
  /\ meter.at = "ready" /\ Len(meter.log) < MaxPushes
  /\ \E chunkLength \in 0..MaxSampleBytes, tick \in 0..MaxTick :
        meter' = push(meter, chunkLength, meter.clock + tick)
  /\ UNCHANGED <<call, fn, tr, mem, flight>>

\* the stream that owned the speedometer is gone
MeterDrop ==
  /\ meter.at = "ready" /\ meter.log # <<>>
  /\ meter' = NoMeter
  /\ UNCHANGED <<call, fn, tr, mem, flight>>

MeterInit == CallIdle /\ fn = NoFn /\ tr = NoTr /\ mem = NoMem /\ flight = NoFlight /\ meter = NoMeter
MeterNext == MeterCreate \/ MeterPush \/ MeterDrop
SpecMeter == MeterInit /\ [][MeterNext]_vars

\* the samples the ring retains after the k-th push: the last samplesCount - 1
Retained(m) ==
  LET k == Len(m.log)
      r == IF k < m.samplesCount THEN k ELSE m.samplesCount - 1
  IN (k - r + 1)..k
RECURSIVE SumBytes(_, _)
SumBytes(log, S) ==
  IF S = {} THEN 0
  ELSE LET i == CHOOSE x \in S : TRUE IN log[i].bytes + SumBytes(log, S \ {i})
Oldest(m) == CHOOSE i \in Retained(m) : \A j \in Retained(m) : i <= j
ClaimedRate(m, S) ==
  LET k == Len(m.log)
      elapsed == m.log[k].now - m.log[Oldest(m)].now
  IN IF m.log[k].now - m.log[1].now < m.min \/ elapsed = 0 THEN NoRate
     ELSE [defined |-> TRUE, rate |-> RoundDiv(SumBytes(m.log, S) * 1000, elapsed)]

\* C22: a push returns undefined while fewer than min milliseconds have
\* passed since the first sample or when the retained window spans no time,
\* and otherwise round(totalBytes * 1000 / elapsedMs), where elapsedMs runs
\* from the oldest retained sample and totalBytes sums the retained samples
\* (with or without the sample just pushed), the evicted one excluded.
C22_RateCoversRetainedWindow ==
  meter.log # <<>> =>
     \/ meter.out = ClaimedRate(meter, Retained(meter))
     \/ meter.out = ClaimedRate(meter, Retained(meter) \ {Len(meter.log)})
====
